---- MODULE Spec2Model ----
(***************************************************************************)
(* Model of the SQL rewriting / validation / catalog-walk core of          *)
(* semantic-grid (apps/fm-app and apps/db-meta).                           *)
(*                                                                         *)
(* Text is modelled as a sequence of tokens (strings); an Optional[str]    *)
(* is a record [some, val]; an Optional dialect name is a string that may  *)
(* be the distinguished value NoneStr.  Every operation of the core is a   *)
(* function: the initial state binds its arguments, the action runs the     *)
(* code of the function on them and records the outcome in (ret, exc).     *)
(***************************************************************************)
EXTENDS Integers, Sequences, FiniteSets, TLC

VARIABLES
    pc,                \* "call": arguments bound, body not yet run; "done": it returned or raised
    op,                \* name of the last function of the core that was called
    args,              \* its arguments
    ret,               \* its return value (for validate_and_raise, the message it raised)
    exc,               \* the exception it raised to its caller ("none" when it returned)
    wh_engine_dialect, \* wh_engine.dialect.name of the running process
    _CACHED_DIALECT    \* module global of fm_app/utils/dialect.py

vars == <<pc, op, args, ret, exc, wh_engine_dialect, _CACHED_DIALECT>>

NoneStr == "<None>"
NoRet == [none |-> TRUE]
None == [some |-> FALSE, val |-> <<>>]
Some(v) == [some |-> TRUE, val |-> v]
\* Python truthiness of an Optional[str]
Truthy(o) == o.some /\ o.val # <<>>

RECURSIVE Count(_, _)
\* number of occurrences of token tok in seq (str.count on a token)
Count(seq, tok) ==
    IF seq = <<>> THEN 0
    ELSE (IF Head(seq) = tok THEN 1 ELSE 0) + Count(Tail(seq), tok)

\* position of the first occurrence of tok in seq, 0 when absent (str.find)
Find(seq, tok) ==
    IF \E i \in 1..Len(seq) : seq[i] = tok
    THEN CHOOSE i \in 1..Len(seq) : seq[i] = tok /\ \A j \in 1..(i - 1) : seq[j] # tok
    ELSE 0

\* `sub in seq` for token sequences
Contains(seq, sub) ==
    \E i \in 0..(Len(seq) - Len(sub)) : \A j \in 1..Len(sub) : seq[i + j] = sub[j]

(***************************************************************************)
(* fm_app/utils/dialect.py                                                 *)
(***************************************************************************)

\* dialect_map.get(name.lower(), name.lower())
get_warehouse_dialect(engine_name) ==
    CASE engine_name = "clickhouse" -> "clickhouse"
      [] engine_name = "postgresql" -> "postgres"
      [] engine_name = "postgres" -> "postgres"
      [] engine_name = "mysql" -> "mysql"
      [] engine_name = "sqlite" -> "sqlite"
      [] engine_name = "mssql" -> "tsql"
      [] engine_name = "oracle" -> "oracle"
      [] engine_name = "trino" -> "trino"
      [] OTHER -> engine_name

\* value of _CACHED_DIALECT after get_cached_warehouse_dialect()
get_cached_warehouse_dialect(cached, engine_name) ==
    IF cached = NoneStr THEN get_warehouse_dialect(engine_name) ELSE cached

(***************************************************************************)
(* fm_app/api/routes.py : build_sorted_paginated_sql                        *)
(***************************************************************************)
WS == " "

RECURSIVE lstrip(_)
lstrip(s) == IF s # <<>> /\ Head(s) = WS THEN lstrip(Tail(s)) ELSE s

\* a strip that removes one trailing token only
rstrip_once(s, chars) ==
    IF s # <<>> /\ s[Len(s)] \in chars THEN SubSeq(s, 1, Len(s) - 1) ELSE s

RECURSIVE rstrip(_, _)
\* str.rstrip(chars): drops every trailing token that is in chars
rstrip(s, chars) ==
    IF s # <<>> /\ s[Len(s)] \in chars THEN rstrip(SubSeq(s, 1, Len(s) - 1), chars) ELSE s

strip(s) == rstrip(lstrip(s), {WS})

\* a quoting that wraps the name but leaves embedded quotes alone
replace_quote_identity(s) == s

RECURSIVE replace_quote(_)
\* sort_by.replace('"', '""')
replace_quote(s) ==
    IF s = <<>> THEN <<>>
    ELSE (IF Head(s) = "\"" THEN <<"\"", "\"">> ELSE <<Head(s)>>) \o replace_quote(Tail(s))

order_clause_of(sort_by, sort_order, dialect) ==
    IF Truthy(sort_by)
    THEN IF dialect = "trino"
         THEN <<"ORDER", "BY">> \o (<<"\"">> \o replace_quote(sort_by.val) \o <<"\"">>) \o <<sort_order>>
         ELSE <<"ORDER", "BY">> \o sort_by.val \o <<sort_order>>
    ELSE IF dialect = "trino"
         THEN <<"ORDER", "BY", "1", "ASC">>
         ELSE <<>>

\* routes.py:440-447, the Trino branch with a total count
trino_counted_sql(user_sql, order_clause) ==
    <<"SELECT", "t.*", ",", "(", "SELECT", "COUNT(*)", "FROM", "(">>
        \o user_sql \o <<")", "AS", "count_subquery", ")", "AS", "total_count", "FROM", "(">>
        \o user_sql \o <<")", "AS", "t">>
        \o order_clause
        \o <<"OFFSET", ":offset", "LIMIT", ":limit">>

\* a windowed family that counts with the scalar subquery as well
window_counted_sql_scalar(user_sql, order_clause) ==
    <<"SELECT", "t.*", ",", "(", "SELECT", "COUNT(*)", "FROM", "(">>
        \o user_sql \o <<")", "AS", "count_subquery", ")", "AS", "total_count", "FROM", "(">>
        \o user_sql \o <<")", "AS", "t">>
        \o order_clause
        \o <<"LIMIT", ":limit", "OFFSET", ":offset">>

\* routes.py:451-461, every other dialect with a total count
window_counted_sql(user_sql, order_clause) ==
    <<"WITH", "orig_sql", "AS", "(">>
        \o user_sql
        \o <<")", "SELECT", "t.*", ",", "COUNT(*)", "OVER", "(", ")", "AS", "total_count",
             "FROM", "orig_sql", "AS", "t">>
        \o order_clause
        \o <<"LIMIT", ":limit", "OFFSET", ":offset">>

\* a Trino branch that binds the page size but forgets the offset
trino_plain_sql_no_offset(user_sql, order_clause) ==
    <<"SELECT", "t.*", "FROM", "(">> \o user_sql \o <<")", "AS", "t">>
        \o order_clause
        \o <<"LIMIT", ":limit">>

\* routes.py:465-471, the Trino branch without a total count
trino_plain_sql(user_sql, order_clause) ==
    <<"SELECT", "t.*", "FROM", "(">> \o user_sql \o <<")", "AS", "t">>
        \o order_clause
        \o <<"OFFSET", ":offset", "LIMIT", ":limit">>

\* a default branch that paginates in Trino's token order
default_plain_sql_offset_first(user_sql, order_clause) ==
    <<"SELECT", "t.*", "FROM", "(">> \o user_sql \o <<")", "AS", "t">>
        \o order_clause
        \o <<"OFFSET", ":offset", "LIMIT", ":limit">>

\* routes.py:473-479, every other dialect without a total count
default_plain_sql(user_sql, order_clause) ==
    <<"SELECT", "t.*", "FROM", "(">> \o user_sql \o <<")", "AS", "t">>
        \o order_clause
        \o <<"LIMIT", ":limit", "OFFSET", ":offset">>

\* a rewriter that removes a trailing LIMIT n from the user's SQL before
\* wrapping it
build_sorted_paginated_sql_strips_limit(user_sql0, sort_by, sort_order, include_total_count, dialect0, cached, engine_name) ==
    LET stripped == rstrip(strip(user_sql0), {";"})
        user_sql == IF Len(stripped) >= 2 /\ stripped[Len(stripped) - 1] = "LIMIT"
                    THEN SubSeq(stripped, 1, Len(stripped) - 2)
                    ELSE stripped
        dialect == IF dialect0 = NoneStr
                   THEN get_cached_warehouse_dialect(cached, engine_name)
                   ELSE dialect0
        order_clause == order_clause_of(sort_by, sort_order, dialect)
    IN  IF include_total_count
        THEN IF dialect = "trino"
             THEN trino_counted_sql(user_sql, order_clause)
             ELSE window_counted_sql(user_sql, order_clause)
        ELSE IF dialect = "trino"
             THEN trino_plain_sql(user_sql, order_clause)
             ELSE default_plain_sql(user_sql, order_clause)

build_sorted_paginated_sql(user_sql0, sort_by, sort_order, include_total_count, dialect0, cached, engine_name) ==
    LET user_sql == rstrip(strip(user_sql0), {";"})
        dialect == IF dialect0 = NoneStr
                   THEN get_cached_warehouse_dialect(cached, engine_name)
                   ELSE dialect0
        order_clause == order_clause_of(sort_by, sort_order, dialect)
    IN  IF include_total_count
        THEN IF dialect = "trino"
             THEN trino_counted_sql(user_sql, order_clause)
             ELSE window_counted_sql(user_sql, order_clause)
        ELSE IF dialect = "trino"
             THEN trino_plain_sql(user_sql, order_clause)
             ELSE default_plain_sql(user_sql, order_clause)

\* caller-supplied SQL: finished statements, optionally with surrounding
\* blanks, trailing terminators, and their own ORDER BY / LIMIT
RewriteArgs ==
    LET UserSqls ==
            { <<"SELECT", "*", "FROM", "trades">>,
              <<"SELECT", "id", ",", "name", "FROM", "users", ";">>,
              <<WS, "SELECT", "id", "FROM", "users", ";", ";", WS>>,
              <<"SELECT", "id", "FROM", "users", "ORDER", "BY", "created_at", "DESC", "LIMIT", "10">>,
              <<"WITH", "temp", "AS", "(", "SELECT", "1", "LIMIT", "5", ")",
                "SELECT", "*", "FROM", "temp", "LIMIT", "5", ";">> }
    IN
    [user_sql : UserSqls,
     sort_by : { None, Some(<<>>), Some(<<"amount">>), Some(<<"Total", "\"", "Amt">>) },
     sort_order : {"asc", "desc"},
     include_total_count : BOOLEAN,
     dialect : {NoneStr, "trino", "clickhouse", "postgres", "mysql", "unknown"}]

\* a caller is about to call build_sorted_paginated_sql (routes.py:1384,
\* worker.py:543); the process may or may not have detected its dialect yet
InitRewrite ==
    /\ pc = "call"
    /\ op = "build_sorted_paginated_sql"
    /\ args \in RewriteArgs
    /\ ret = NoRet
    /\ exc = "none"
    /\ wh_engine_dialect \in {"clickhouse", "postgresql", "trino", "duckdb"}
    /\ _CACHED_DIALECT \in {NoneStr, get_warehouse_dialect(wh_engine_dialect)}

Rewrite ==
    /\ pc = "call"
    /\ op = "build_sorted_paginated_sql"
    /\ ret' = build_sorted_paginated_sql(args.user_sql, args.sort_by, args.sort_order,
                    args.include_total_count, args.dialect, _CACHED_DIALECT, wh_engine_dialect)
    /\ exc' = "none"
    /\ _CACHED_DIALECT' = IF args.dialect = NoneStr
                          THEN get_cached_warehouse_dialect(_CACHED_DIALECT, wh_engine_dialect)
                          ELSE _CACHED_DIALECT
    /\ pc' = "done"
    /\ UNCHANGED <<op, args, wh_engine_dialect>>

SpecRewrite == InitRewrite /\ [][Rewrite]_vars

\* the dialect the last Rewrite call ran its branches on
EffectiveDialect ==
    IF args.dialect = NoneStr THEN _CACHED_DIALECT ELSE args.dialect

\* C1: for every dialect branch and every combination of sort_by
\* present/absent and include_total_count true/false, the SQL returned by
\* build_sorted_paginated_sql contains exactly one :limit placeholder and
\* exactly one :offset placeholder.
C1_OneLimitOneOffset ==
    (pc = "done" /\ op = "build_sorted_paginated_sql") =>
        /\ Count(ret, ":limit") = 1
        /\ Count(ret, ":offset") = 1

\* the Trino counted branch (user SQL embedded twice) with a sort column ran
C1_Witness ==
    /\ pc = "done"
    /\ op = "build_sorted_paginated_sql"
    /\ EffectiveDialect = "trino"
    /\ args.include_total_count
    /\ Truthy(args.sort_by)
    /\ Count(ret, "LIMIT") = 3

\* the last call's result had include_total_count been true
CountedForm ==
    build_sorted_paginated_sql(args.user_sql, args.sort_by, args.sort_order, TRUE,
                               EffectiveDialect, NoneStr, wh_engine_dialect)

LimitBeforeOffset(sql) == Find(sql, ":limit") < Find(sql, ":offset")

\* C3: when include_total_count is false the rewritten SQL omits the count
\* column but keeps the wrapping and the LIMIT/OFFSET token order of the
\* counted form of its dialect family; for the windowed-count family
\* (every dialect but Trino) the user SQL is still wrapped as
\* WITH orig_sql AS (...) and selected FROM orig_sql AS t.
C3_UncountedKeepsWrapping ==
    (pc = "done" /\ op = "build_sorted_paginated_sql" /\ ~args.include_total_count) =>
        /\ Count(ret, "total_count") = 0
        /\ LimitBeforeOffset(ret) <=> LimitBeforeOffset(CountedForm)
        /\ EffectiveDialect # "trino" =>
              /\ Contains(CountedForm, <<"WITH", "orig_sql", "AS", "(">>)
              /\ Contains(ret, <<"WITH", "orig_sql", "AS", "(">>)
              /\ Contains(ret, <<"FROM", "orig_sql", "AS", "t">>)

EndsWith(seq, suffix) ==
    Len(seq) >= Len(suffix) /\ SubSeq(seq, Len(seq) - Len(suffix) + 1, Len(seq)) = suffix

\* C16: for Trino the rewritten SQL has `OFFSET :offset` before
\* `LIMIT :limit`; for every other dialect, including unknown ones, it has
\* `LIMIT :limit` before `OFFSET :offset`.
C16_TokenOrderPerDialect ==
    (pc = "done" /\ op = "build_sorted_paginated_sql") =>
        IF EffectiveDialect = "trino"
        THEN /\ EndsWith(ret, <<"OFFSET", ":offset", "LIMIT", ":limit">>)
             /\ ~Contains(ret, <<"LIMIT", ":limit", "OFFSET", ":offset">>)
        ELSE /\ EndsWith(ret, <<"LIMIT", ":limit", "OFFSET", ":offset">>)
             /\ ~Contains(ret, <<"OFFSET", ":offset", "LIMIT", ":limit">>)

\* an unknown dialect was paginated without a total count
C16_Witness ==
    /\ pc = "done"
    /\ op = "build_sorted_paginated_sql"
    /\ EffectiveDialect = "unknown"
    /\ ~args.include_total_count
    /\ Find(ret, ":limit") > 0
    /\ Find(ret, ":limit") < Find(ret, ":offset")

\* C17: with include_total_count true, Trino computes the total with a
\* scalar subquery aliased count_subquery and exposed as total_count, and
\* never with a window function; every other dialect uses COUNT(*) OVER ()
\* over the CTE orig_sql and never the scalar subquery.
C17_CountFormPerDialect ==
    (pc = "done" /\ op = "build_sorted_paginated_sql" /\ args.include_total_count) =>
        IF EffectiveDialect = "trino"
        THEN /\ Contains(ret, <<"(", "SELECT", "COUNT(*)", "FROM", "(">>)
             /\ Contains(ret, <<")", "AS", "count_subquery", ")", "AS", "total_count">>)
             /\ Count(ret, "OVER") = 0
             /\ Count(ret, "orig_sql") = 0
        ELSE /\ Contains(ret, <<"WITH", "orig_sql", "AS", "(">>)
             /\ Contains(ret, <<"COUNT(*)", "OVER", "(", ")", "AS", "total_count",
                                "FROM", "orig_sql", "AS", "t">>)
             /\ Count(ret, "count_subquery") = 0

\* a counted rewrite ran for a dialect of the windowed family that the
\* process detected itself
C17_Witness ==
    /\ pc = "done"
    /\ op = "build_sorted_paginated_sql"
    /\ args.include_total_count
    /\ args.dialect = NoneStr
    /\ EffectiveDialect = "duckdb"
    /\ Count(ret, "OVER") = 1

\* the direction keyword as either spelling of the requested sort order
DirectionTokens(sort_order) ==
    IF sort_order = "asc" THEN {"asc", "ASC"} ELSE {"desc", "DESC"}

\* C18: when sort_by is absent, the rewriter synthesizes
\* ORDER BY 1 <direction> with the requested sort direction for Trino, and
\* adds no ORDER BY clause at all for any other dialect.
C18_DefaultOrderFollowsDirection ==
    (pc = "done" /\ op = "build_sorted_paginated_sql" /\ ~Truthy(args.sort_by)) =>
        IF EffectiveDialect = "trino"
        THEN \E d \in DirectionTokens(args.sort_order) :
                \/ EndsWith(ret, <<"ORDER", "BY", "1", d, "OFFSET", ":offset", "LIMIT", ":limit">>)
                \/ EndsWith(ret, <<"ORDER", "BY", "1", d, "LIMIT", ":limit", "OFFSET", ":offset">>)
        ELSE Count(ret, "ORDER") = Count(args.user_sql, "ORDER")

RECURSIVE DoubledQuotes(_)
\* the name with every double quote written twice
DoubledQuotes(name) ==
    IF name = <<>> THEN <<>>
    ELSE (IF Head(name) = "\"" THEN <<"\"", "\"">> ELSE <<Head(name)>>)
             \o DoubledQuotes(Tail(name))

\* C19: when sort_by is present (a non-empty string), Trino emits it wrapped
\* in double quotes with every embedded double quote doubled, and every
\* other dialect emits the bare identifier without quotes.
C19_SortColumnQuoting ==
    (pc = "done" /\ op = "build_sorted_paginated_sql" /\ Truthy(args.sort_by)) =>
        IF EffectiveDialect = "trino"
        THEN EndsWith(ret, <<"ORDER", "BY", "\"">> \o DoubledQuotes(args.sort_by.val)
                              \o <<"\"", args.sort_order, "OFFSET", ":offset", "LIMIT", ":limit">>)
        ELSE EndsWith(ret, <<"ORDER", "BY">> \o args.sort_by.val
                              \o <<args.sort_order, "LIMIT", ":limit", "OFFSET", ":offset">>)

\* Trino sorted by a name that contains a double quote
C19_Witness ==
    /\ pc = "done"
    /\ op = "build_sorted_paginated_sql"
    /\ EffectiveDialect = "trino"
    /\ args.sort_by = Some(<<"Total", "\"", "Amt">>)
    /\ Contains(ret, <<"\"", "Total", "\"", "\"", "Amt", "\"">>)

\* C20: ORDER BY and LIMIT clauses already inside the user's SQL are left
\* untouched: the user's statement is embedded whole, and the only
\* additions are the outer ORDER BY and LIMIT :limit / OFFSET :offset; a
\* ClickHouse query with one trailing LIMIT, wrapped without a total count,
\* yields exactly two LIMIT tokens.
C20_InnerClausesPreserved ==
    (pc = "done" /\ op = "build_sorted_paginated_sql") =>
        LET u == rstrip(strip(args.user_sql), {";"})
            copies == IF EffectiveDialect = "trino" /\ args.include_total_count THEN 2 ELSE 1
            outer == IF Truthy(args.sort_by) \/ EffectiveDialect = "trino" THEN 1 ELSE 0
        IN  /\ Contains(ret, u)
            /\ Count(ret, "LIMIT") = copies * Count(u, "LIMIT") + 1
            /\ Count(ret, "ORDER") = copies * Count(u, "ORDER") + outer
            /\ (EffectiveDialect = "clickhouse" /\ ~args.include_total_count
                    /\ Count(u, "LIMIT") = 1) => Count(ret, "LIMIT") = 2

\* a ClickHouse query with its own ORDER BY and one trailing LIMIT was
\* wrapped without a total count and with an outer sort
C20_Witness ==
    /\ pc = "done"
    /\ op = "build_sorted_paginated_sql"
    /\ EffectiveDialect = "clickhouse"
    /\ ~args.include_total_count
    /\ Truthy(args.sort_by)
    /\ EndsWith(args.user_sql, <<"ORDER", "BY", "created_at", "DESC", "LIMIT", "10">>)
    /\ Count(ret, "LIMIT") = 2
    /\ Count(ret, "ORDER") = 2

\* s without its leading blanks
WithoutLeadingBlanks(s) ==
    LET first == IF \E i \in 1..Len(s) : s[i] # WS
                 THEN CHOOSE i \in 1..Len(s) : s[i] # WS /\ \A j \in 1..(i - 1) : s[j] = WS
                 ELSE Len(s) + 1
    IN  SubSeq(s, first, Len(s))

\* s without its whole run of trailing tokens from chars
WithoutTrailing(s, chars) ==
    LET last == IF \E i \in 1..Len(s) : s[i] \notin chars
                THEN CHOOSE i \in 1..Len(s) :
                        s[i] \notin chars /\ \A j \in (i + 1)..Len(s) : s[j] \in chars
                ELSE 0
    IN  SubSeq(s, 1, last)

MaxNameLen == 1
MaxCols == 2

Chars == {"a", "A", "b"}

\* str.lower() on one character
LowerChar(c) == CASE c = "A" -> "a" [] c = "B" -> "b" [] OTHER -> c
lower(s) == [i \in 1..Len(s) |-> LowerChar(s[i])]

\* code point of a character (ordering used by sorted())
Ord(c) ==
    CASE c = " " -> 32 [] c = "(" -> 40 [] c = ")" -> 41 [] c = "." -> 46 [] c = "1" -> 49
      [] c = "A" -> 65 [] c = "B" -> 66 [] c = "_" -> 95 [] c = "a" -> 97 [] c = "b" -> 98
      [] c = "f" -> 102 [] c = "t" -> 116 [] OTHER -> 0

RECURSIVE StrLess(_, _)
\* x < y for Python strings
StrLess(x, y) ==
    IF y = <<>> THEN FALSE
    ELSE IF x = <<>> THEN TRUE
    ELSE IF Head(x) = Head(y) THEN StrLess(Tail(x), Tail(y))
    ELSE Ord(Head(x)) < Ord(Head(y))

RECURSIVE sorted(_)
\* sorted(names) of a collection of distinct strings
sorted(names) ==
    IF names = {} THEN <<>>
    ELSE LET m == CHOOSE x \in names : \A y \in names \ {x} : StrLess(x, y)
         IN  <<m>> \o sorted(names \ {m})

RECURSIVE join(_, _)
\* sep.join(list) as one flat character/token sequence
join(sep, list) ==
    IF list = <<>> THEN <<>>
    ELSE IF Len(list) = 1 THEN list[1]
    ELSE list[1] \o <<sep>> \o join(sep, Tail(list))

SortNames == UNION { [1..n -> Chars] : n \in 1..MaxNameLen }

\* routes.py:225-232
column_name_of(col) ==
    IF col.kind = "Column" THEN col.column_name
    ELSE IF col.kind = "dict" THEN col.column_name
    ELSE None

\* a lookup that stores the lowercased name instead of the declared one
RECURSIVE valid_columns_lowercased(_, _)
valid_columns_lowercased(columns, acc) ==
    IF columns = <<>> THEN acc
    ELSE LET column_name == column_name_of(Head(columns))
         IN  IF Truthy(column_name)
             THEN LET key == lower(column_name.val)
                  IN  valid_columns_lowercased(Tail(columns),
                          [k \in (DOMAIN acc) \cup {key} |->
                              IF k = key THEN key ELSE acc[k]])
             ELSE valid_columns_lowercased(Tail(columns), acc)

RECURSIVE valid_columns_of(_, _)
\* routes.py:223-235: the dict lower(name) -> declared name, later columns
\* overwriting earlier ones with the same lowercase form
valid_columns_of(columns, acc) ==
    IF columns = <<>> THEN acc
    ELSE LET column_name == column_name_of(Head(columns))
         IN  IF Truthy(column_name)
             THEN LET key == lower(column_name.val)
                  IN  valid_columns_of(Tail(columns),
                          [k \in (DOMAIN acc) \cup {key} |->
                              IF k = key THEN column_name.val ELSE acc[k]])
             ELSE valid_columns_of(Tail(columns), acc)

\* a guard that only catches None
columns_is_none(columns) == ~columns.some

\* routes.py:218: `not columns` (None or an empty list)
columns_falsy(columns) == ~columns.some \/ columns.val = <<>>

MsgNotAvailable == <<"Query metadata not available - cannot validate sort column">>
MsgNoColumns == <<"No columns found in query metadata">>

\* a validator that looks sort_by up as given, not lowercased
validate_sort_column_exact_key(sort_by, columns) ==
    IF columns_falsy(columns)
    THEN [valid |-> FALSE, result |-> MsgNotAvailable]
    ELSE LET valid_columns == valid_columns_of(columns.val, <<>>)
         IN  IF DOMAIN valid_columns = {}
             THEN [valid |-> FALSE, result |-> MsgNoColumns]
             ELSE IF sort_by \notin DOMAIN valid_columns
             THEN [valid |-> FALSE,
                   result |-> <<"Invalid sort column '">> \o sort_by
                              \o <<"'. Available columns: ">>
                              \o join(", ", sorted({valid_columns[k] : k \in DOMAIN valid_columns}))]
             ELSE [valid |-> TRUE, result |-> valid_columns[sort_by]]

validate_sort_column(sort_by, columns) ==
    IF columns_falsy(columns)
    THEN [valid |-> FALSE, result |-> MsgNotAvailable]
    ELSE LET valid_columns == valid_columns_of(columns.val, <<>>)
             sort_by_lower == lower(sort_by)
         IN  IF DOMAIN valid_columns = {}
             THEN [valid |-> FALSE, result |-> MsgNoColumns]
             ELSE IF sort_by_lower \notin DOMAIN valid_columns
             THEN [valid |-> FALSE,
                   result |-> <<"Invalid sort column '">> \o sort_by
                              \o <<"'. Available columns: ">>
                              \o join(", ", sorted({valid_columns[k] : k \in DOMAIN valid_columns}))]
             ELSE [valid |-> TRUE, result |-> valid_columns[sort_by_lower]]

\* a request handler is about to validate its sort_by (routes.py:1273, 1531)
InitSort ==
    \* the heterogeneous column representations: Column objects (column_name may
    \* be None or empty), dicts (the key may be missing), anything else
    LET ColumnValues ==
            [kind : {"Column"}, column_name : {Some(n) : n \in SortNames}]
            \cup [kind : {"dict"}, column_name : {Some(n) : n \in [1..1 -> Chars]}]
            \cup [kind : {"Column"}, column_name : {None, Some(<<>>)}]
            \cup [kind : {"dict", "other"}, column_name : {None}]
        SortArgs == [sort_by : SortNames, columns : {None} \cup {Some(l) : l \in UNION { [1..n -> ColumnValues] : n \in 0..MaxCols }}]
    IN
    /\ pc = "call"
    /\ op = "validate_sort_column"
    /\ args \in SortArgs
    /\ ret = NoRet
    /\ exc = "none"
    /\ wh_engine_dialect = "clickhouse"
    /\ _CACHED_DIALECT = NoneStr

ValidateSort ==
    /\ pc = "call"
    /\ op = "validate_sort_column"
    /\ ret' = validate_sort_column(args.sort_by, args.columns)
    /\ exc' = "none"
    /\ pc' = "done"
    /\ UNCHANGED <<op, args, wh_engine_dialect, _CACHED_DIALECT>>

SpecSort == InitSort /\ [][ValidateSort]_vars

SortDone == pc = "done" /\ op = "validate_sort_column"

\* the names a caller can read off the supplied column list
DeclaredNames ==
    IF args.columns.some
    THEN { column_name_of(args.columns.val[i]).val : i \in
             { j \in 1..Len(args.columns.val) : Truthy(column_name_of(args.columns.val[j])) } }
    ELSE {}

\* C7: whenever validate_sort_column reports success, the name it returns
\* is byte-identical to a column name of the supplied list (its declared
\* casing, matching sort_by case-insensitively); it never invents a name.
C7_ReturnsDeclaredName ==
    (SortDone /\ ret.valid) =>
        /\ ret.result \in DeclaredNames
        /\ lower(ret.result) = lower(args.sort_by)

\* success for a sort_by whose casing differs from the declared name
C7_Witness ==
    /\ SortDone
    /\ ret.valid
    /\ ret.result # args.sort_by
    /\ ret.result \in DeclaredNames

\* C8 (as claimed): an absent or empty column list fails, and the message
\* for None differs from the message for an empty list.
C8_DistinctMessages ==
    (SortDone /\ (~args.columns.some \/ args.columns.val = <<>>)) =>
        /\ ~ret.valid
        /\ ~args.columns.some =>
              ret.result # validate_sort_column(args.sort_by, Some(<<>>)).result

\* C8 (amended): an absent or empty column list fails, both with the same
\* "not available" message; the distinct "No columns found" message is the
\* one for a non-empty list from which no column name can be extracted.
C8_UnavailableMessages ==
    SortDone =>
        /\ (~args.columns.some \/ args.columns.val = <<>>) =>
              (~ret.valid /\ ret.result = MsgNotAvailable)
        /\ (args.columns.some /\ args.columns.val # <<>> /\ DeclaredNames = {}) =>
              (~ret.valid /\ ret.result = MsgNoColumns)
        /\ DeclaredNames # {} => ret.result \notin {MsgNotAvailable, MsgNoColumns}

\* the validator ran on an empty list
C8_Witness ==
    /\ SortDone
    /\ args.columns.some
    /\ args.columns.val = <<>>
    /\ ret = [valid |-> FALSE, result |-> MsgNotAvailable]

\* C21: sort validation is idempotent: if validate(anyCasing, columns)
\* succeeds and returns canonical, then validate(canonical, columns)
\* returns (true, canonical).
C21_ValidationIdempotent ==
    (SortDone /\ ret.valid) =>
        validate_sort_column(ret.result, args.columns) = [valid |-> TRUE, result |-> ret.result]

\* a successful validation that changed the caller's casing, over a list
\* declaring two names
C21_Witness ==
    /\ SortDone
    /\ ret.valid
    /\ ret.result # args.sort_by
    /\ Cardinality(DeclaredNames) = 2

\* C30: if sort_by is byte-identical to a declared column name, the
\* validator returns exactly that name, also when the column list contains
\* other names that differ from it only in letter case.
C30_ExactMatchWins ==
    (SortDone /\ args.sort_by \in DeclaredNames) =>
        ret = [valid |-> TRUE, result |-> args.sort_by]

(***************************************************************************)
(* dbmeta_app/prompt_items/db_struct.py : overlay lookup and visibility     *)
(* A YAML dict is a record whose field `keys` lists the keys it really has; *)
(* the other fields hold the values (padded when the key is absent).       *)
(***************************************************************************)
\* dict.get(key, default)
dict_get(d, key, default) == IF key \in d.keys THEN d[key] ELSE default

NoColumns == [c \in {} |-> [keys |-> {}, hidden |-> FALSE]]
EmptyDict == [keys |-> {}, description |-> "", hidden |-> FALSE, columns |-> NoColumns]

\* overlay entries a profile can hold under one key: a description only, a
\* hidden table, a table with a hidden column, an explicitly visible table,
\* an empty mapping
TableEntries(key) ==
    { [keys |-> {"description"}, description |-> key, hidden |-> FALSE, columns |-> NoColumns],
      [keys |-> {"description", "hidden"}, description |-> key, hidden |-> TRUE,
       columns |-> NoColumns],
      [keys |-> {"description", "columns"}, description |-> key, hidden |-> FALSE,
       columns |-> [c \in {"secret"} |-> [keys |-> {"hidden"}, hidden |-> TRUE]]],
      EmptyDict }

\* f"{catalog_name}.{schema_name}.{table_name}" and f"{schema_name}.{table_name}"
fqn3(catalog_name, schema_name, table_name) ==
    catalog_name \o "." \o schema_name \o "." \o table_name
fqn2(schema_name, table_name) == schema_name \o "." \o table_name

\* truthiness of an Optional name held as a string
NameTruthy(n) == n # NoneStr /\ n # ""

\* a lookup that prefers the short name
get_table_metadata_short_first(descriptions, table_name, schema_name, catalog_name) ==
    LET tables == dict_get(descriptions, "tables", <<>>)
    IN  IF table_name \in DOMAIN tables
        THEN tables[table_name]
        ELSE IF NameTruthy(schema_name) /\ fqn2(schema_name, table_name) \in DOMAIN tables
        THEN tables[fqn2(schema_name, table_name)]
        ELSE IF /\ NameTruthy(catalog_name) /\ NameTruthy(schema_name)
                /\ fqn3(catalog_name, schema_name, table_name) \in DOMAIN tables
        THEN tables[fqn3(catalog_name, schema_name, table_name)]
        ELSE EmptyDict

_get_table_metadata_with_fallback(descriptions, table_name, schema_name, catalog_name) ==
    LET tables == dict_get(descriptions, "tables", <<>>)
    IN  IF /\ NameTruthy(catalog_name) /\ NameTruthy(schema_name)
           /\ fqn3(catalog_name, schema_name, table_name) \in DOMAIN tables
        THEN tables[fqn3(catalog_name, schema_name, table_name)]
        ELSE IF NameTruthy(schema_name) /\ fqn2(schema_name, table_name) \in DOMAIN tables
        THEN tables[fqn2(schema_name, table_name)]
        ELSE IF table_name \in DOMAIN tables
        THEN tables[table_name]
        ELSE EmptyDict

\* a visibility check that forgets the whitelist
should_include_table_no_whitelist(descriptions, table_metadata) ==
    ~dict_get(table_metadata, "hidden", FALSE)

_should_include_table(descriptions, table_metadata) ==
    LET has_whitelist == dict_get(descriptions, "whitelist", FALSE)
        has_table_description == table_metadata.keys # {}
    IN  IF has_whitelist /\ ~has_table_description THEN FALSE
        ELSE IF dict_get(table_metadata, "hidden", FALSE) THEN FALSE
        ELSE TRUE

OverlayTables ==
    UNION { { f \in [K -> UNION {TableEntries(k) : k \in K}] :
                \A k \in K : f[k] \in TableEntries(k) } : K \in SUBSET {"orders", "public.orders", "c1.public.orders", "sales.orders"} }

\* a profile of schema_descriptions.yaml: optional whitelist flag, tables
Descriptions(tableMaps) ==
    { [keys |-> {"tables"}, whitelist |-> FALSE, tables |-> t] : t \in tableMaps }
    \cup { [keys |-> {"tables", "whitelist"}, whitelist |-> w, tables |-> t] :
             w \in BOOLEAN, t \in tableMaps }

\* the walk has discovered a table and is about to resolve it
\* (db_struct.py:343-350)
InitResolve ==
    LET ResolveArgs ==
            [descriptions : Descriptions(OverlayTables), table : {"orders"},
             schema : {NoneStr, "public"}, catalog : {NoneStr, "c1"}]
    IN
    /\ pc = "call"
    /\ op = "resolve_table"
    /\ args \in ResolveArgs
    /\ ret = NoRet
    /\ exc = "none"
    /\ wh_engine_dialect = "clickhouse"
    /\ _CACHED_DIALECT = NoneStr

ResolveTable ==
    /\ pc = "call"
    /\ op = "resolve_table"
    /\ LET table_metadata == _get_table_metadata_with_fallback(
                                 args.descriptions, args.table, args.schema, args.catalog)
       IN  ret' = [table_metadata |-> table_metadata,
                   include |-> _should_include_table(args.descriptions, table_metadata)]
    /\ exc' = "none"
    /\ pc' = "done"
    /\ UNCHANGED <<op, args, wh_engine_dialect, _CACHED_DIALECT>>

SpecResolve == InitResolve /\ [][ResolveTable]_vars

ResolveDone == pc = "done" /\ op = "resolve_table"

\* the keys the lookup may try for the arguments of the call, most specific first
Has3 == /\ args.catalog # NoneStr /\ args.schema # NoneStr
        /\ fqn3(args.catalog, args.schema, args.table) \in DOMAIN args.descriptions.tables
Has2 == /\ args.schema # NoneStr
        /\ fqn2(args.schema, args.table) \in DOMAIN args.descriptions.tables
Has1 == args.table \in DOMAIN args.descriptions.tables

\* C4: the overlay descriptor of a table is the entry of the first present
\* key among catalog.schema.table, schema.table, table (in that order),
\* and the empty descriptor when none is present; with only "orders" the
\* lookup of (c1, public, orders) returns the "orders" entry and with both
\* "orders" and "c1.public.orders" it returns the "c1.public.orders" entry.
C4_OverlayPrecedence ==
    ResolveDone =>
        LET tables == args.descriptions.tables
            m == ret.table_metadata
        IN  /\ Has3 => m = tables[fqn3(args.catalog, args.schema, args.table)]
            /\ (~Has3 /\ Has2) => m = tables[fqn2(args.schema, args.table)]
            /\ (~Has3 /\ ~Has2 /\ Has1) => m = tables[args.table]
            /\ (~Has3 /\ ~Has2 /\ ~Has1) => m = EmptyDict
            /\ (args.catalog = "c1" /\ args.schema = "public" /\ DOMAIN tables = {"orders"})
                  => m = tables["orders"]
            /\ (/\ args.catalog = "c1" /\ args.schema = "public"
                /\ DOMAIN tables = {"orders", "c1.public.orders"})
                  => m = tables["c1.public.orders"]

\* (c1, public, orders) resolved against an overlay holding both the short
\* and the fully qualified key, with different entries
C4_Witness ==
    /\ ResolveDone
    /\ args.catalog = "c1" /\ args.schema = "public"
    /\ DOMAIN args.descriptions.tables = {"orders", "c1.public.orders"}
    /\ args.descriptions.tables["orders"] # args.descriptions.tables["c1.public.orders"]
    /\ ret.table_metadata = args.descriptions.tables["c1.public.orders"]

\* C6: in whitelist mode a table is visible only if it has an explicit
\* overlay entry (and then only a non-empty, non-hidden one); without the
\* whitelist every table is visible unless its resolved descriptor marks
\* it hidden.
C6_VisibilityPolicy ==
    ResolveDone =>
        LET whitelist == "whitelist" \in args.descriptions.keys /\ args.descriptions.whitelist
            m == ret.table_metadata
            hidden == "hidden" \in m.keys /\ m.hidden
        IN  /\ whitelist => (ret.include => (Has3 \/ Has2 \/ Has1))
            /\ whitelist => (ret.include <=> (m.keys # {} /\ ~hidden))
            /\ ~whitelist => (ret.include <=> ~hidden)

\* whitelist mode excluded a table that has no overlay entry and is not hidden
C6_Witness ==
    /\ ResolveDone
    /\ "whitelist" \in args.descriptions.keys /\ args.descriptions.whitelist
    /\ ~(Has3 \/ Has2 \/ Has1)
    /\ ~ret.include

(***************************************************************************)
(* dbmeta_app/prompt_items/db_struct.py : the catalog walk                  *)
(* The live database is a fixed layout (catalogs, schemas, tables,         *)
(* columns, rows); an environment chooses the dialect, the overlay, how    *)
(* many schemas exist and which introspection steps raise.                 *)
(***************************************************************************)
MaxSchemas == 2
MaxFailures == 1

SchemaPool == <<"s1", "s2", "s3", "s4">>

\* rows of SHOW SCHEMAS / inspector.get_schema_names() with n user schemas
LiveSchemas(dialect, n) ==
    SubSeq(SchemaPool, 1, n) \o
        (CASE dialect = "trino" -> <<"information_schema">>
           [] dialect = "postgresql" -> <<"information_schema", "pg_catalog">>
           [] OTHER -> <<"system", "_internal">>)

\* tables of a schema; a None schema means the connection's default schema
TablesIn(catalog, schema) ==
    CASE catalog = "c2" -> <<"users">>
      [] schema \in {"s1", NoneStr} -> <<"orders", "_tmp">>
      [] schema = "s2" -> <<"orders", "temp_x", "events">>
      [] schema \in {"s3", "s4"} -> <<"users">>
      [] OTHER -> <<>>

ColumnsOf(table) ==
    CASE table = "orders" -> <<"id", "secret", "amount">>
      [] table = "users" -> <<"secret", "name">>
      [] OTHER -> <<"id", "ts">>

\* ids of the rows a sample query returns
SampleRowsOf(table) == IF table = "events" THEN <<>> ELSE <<"r1", "r2">>

\* the value stored in a column of a row
CellValue(col, row) == col \o "@" \o row

Range(f) == { f[i] : i \in DOMAIN f }

\* str.startswith for the names of the layout
StartsWith(name, prefix) ==
    CASE prefix = "_" -> name \in {"_tmp", "_internal"}
      [] prefix = "temp_" -> name \in {"temp_x"}
      [] OTHER -> FALSE

\* url.database.split("/")[0]
FirstPathPart(database) == IF database = "c1/s1" THEN "c1" ELSE database

Raises(e, kind, a, b) == <<kind, a, b>> \in e.failing

\* for a non-federated engine the inspector lists the connected database
LayoutCatalog(e, catalog_name) == IF e.dialect = "trino" THEN catalog_name ELSE ""

_get_catalogs(e) ==
    IF e.dialect = "trino"
    THEN IF Raises(e, "SHOW CATALOGS", "", "")
         THEN IF e.url_database # NoneStr
              THEN <<FirstPathPart(e.url_database)>>
              ELSE <<NoneStr>>
         ELSE LET NotSystem(c) == c \notin {"system", "information_schema"}
                  catalogs == SelectSeq(<<"c1", "system", "c2">>, NotSystem)
              IN  IF catalogs # <<>> THEN catalogs ELSE <<NoneStr>>
    ELSE IF e.dialect = "clickhouse"
    THEN IF e.url_database # NoneStr THEN <<e.url_database>> ELSE <<NoneStr>>
    ELSE <<NoneStr>>

_get_schemas_for_catalog(e, catalog_name) ==
    LET inspected == IF Raises(e, "get_schema_names", "", "")
                     THEN <<NoneStr>>
                     ELSE LiveSchemas(e.dialect, e.n_schemas)
    IN  IF e.dialect = "trino" /\ NameTruthy(catalog_name)
        THEN IF Raises(e, "SHOW SCHEMAS", "", "")
             THEN inspected
             ELSE LET NotSystem(x) == x \notin {"information_schema"}
                      schemas == SelectSeq(LiveSchemas(e.dialect, e.n_schemas), NotSystem)
                  IN  IF schemas # <<>> THEN schemas ELSE <<NoneStr>>
        ELSE inspected

\* db_struct.py:284-317: the per-dialect system-schema denylist
filter_schemas(e, schema_names) ==
    LET Keep(x) ==
            CASE e.dialect = "clickhouse" ->
                    /\ NameTruthy(x) /\ ~StartsWith(x, "_")
                    /\ x \notin {"system", "information_schema", "INFORMATION_SCHEMA"}
              [] e.dialect \in {"postgresql", "postgres"} ->
                    /\ NameTruthy(x)
                    /\ x \notin {"information_schema", "pg_catalog", "pg_toast", "pg_temp_1"}
              [] e.dialect = "trino" -> NameTruthy(x) /\ x \notin {"information_schema"}
              [] OTHER -> TRUE
        kept == SelectSeq(schema_names, Keep)
    IN  IF kept = <<>> THEN <<NoneStr>> ELSE kept

\* db_struct.py:320-333: list the tables of one schema; "fail" when it raises
list_tables(e, catalog_name, schema_name) ==
    IF Raises(e, "tables", LayoutCatalog(e, catalog_name), schema_name)
    THEN [ok |-> FALSE, names |-> <<>>]
    ELSE [ok |-> TRUE, names |-> TablesIn(LayoutCatalog(e, catalog_name), schema_name)]

\* DESCRIBE / inspector.get_columns: raises for a table the schema does not have
get_columns(e, catalog_name, schema_name, table) ==
    IF \/ Raises(e, "columns", table, "")
       \/ table \notin Range(TablesIn(LayoutCatalog(e, catalog_name), schema_name))
    THEN [ok |-> FALSE, columns |-> <<>>]
    ELSE [ok |-> TRUE, columns |-> ColumnsOf(table)]

\* conn.execute(sample query): result keys and row ids, or a failure
run_sample_query(e, catalog_name, schema_name, table) ==
    IF \/ Raises(e, "sample", table, "")
       \/ table \notin Range(TablesIn(LayoutCatalog(e, catalog_name), schema_name))
    THEN [ok |-> FALSE, keys |-> <<>>, rows |-> <<>>]
    ELSE [ok |-> TRUE, keys |-> ColumnsOf(table), rows |-> SampleRowsOf(table)]

\* table_metadata.get("columns", {}).get(col, {}).get("hidden", False)
col_hidden(table_metadata, col) ==
    LET columns == dict_get(table_metadata, "columns", NoColumns)
        col_metadata == IF col \in DOMAIN columns THEN columns[col]
                        ELSE [keys |-> {}, hidden |-> FALSE]
    IN  dict_get(col_metadata, "hidden", FALSE)

\* db_struct.py:437-443, 762-768
visible_columns_of(columns, table_metadata) ==
    LET Visible(col) == ~col_hidden(table_metadata, col)
    IN  SelectSeq(columns, Visible)

\* indexes taken as if the filtered list were a prefix of the original
visible_indexes_prefix(columns, visible_columns) ==
    [k \in 1..Len(visible_columns) |-> k]

\* db_struct.py:446-448, 771-773: positions of the visible columns
visible_indexes_of(columns, visible_columns) ==
    LET InVisible(i) == columns[i] \in Range(visible_columns)
    IN  SelectSeq([i \in 1..Len(columns) |-> i], InVisible)

\* db_struct.py:451-454, 776-782: each fetched row as the dict built from
\* zip(visible_columns, visible_indexes), a sequence of <<column, value>>
project_rows(keys, rows, table_metadata) ==
    LET visible_columns == visible_columns_of(keys, table_metadata)
        visible_indexes == visible_indexes_of(keys, visible_columns)
        n == IF Len(visible_columns) < Len(visible_indexes)
             THEN Len(visible_columns) ELSE Len(visible_indexes)
    IN  [r \in 1..Len(rows) |->
            [k \in 1..n |-> <<visible_columns[k], CellValue(keys[visible_indexes[k]], rows[r])>>]]

\* a line (or block) appended to schema_text, tagged with the loop variables
\* of the iteration that appended it
Item(kind, catalog_name, schema_name, table, name, vals) ==
    [kind |-> kind, catalog |-> catalog_name, schema |-> schema_name, table |-> table,
     name |-> name, vals |-> vals]

\* db_struct.py:354-361
full_table_name_of(e, catalog_name, schema_name, table) ==
    IF e.dialect = "trino" /\ NameTruthy(catalog_name) /\ NameTruthy(schema_name)
    THEN fqn3(catalog_name, schema_name, table)
    ELSE IF NameTruthy(schema_name) THEN fqn2(schema_name, table)
    ELSE table

RECURSIVE column_lines(_, _, _, _, _)
\* db_struct.py:399-416
column_lines(columns, table_metadata, catalog_name, schema_name, table) ==
    IF columns = <<>> THEN <<>>
    ELSE (IF ~col_hidden(table_metadata, Head(columns))
          THEN <<Item("column", catalog_name, schema_name, table, Head(columns), <<>>)>>
          ELSE <<>>)
         \o column_lines(Tail(columns), table_metadata, catalog_name, schema_name, table)

\* db_struct.py:338-461: the body of `for table in table_names`, on the
\* walk state st = [text, table_counter, ...]
table_block(e, catalog_name, schema_name, table, st) ==
    IF StartsWith(table, "_") \/ StartsWith(table, "temp_") THEN st
    ELSE
    LET table_metadata == _get_table_metadata_with_fallback(
                              e.descriptions, table, schema_name, catalog_name)
    IN  IF ~_should_include_table(e.descriptions, table_metadata) THEN st
        ELSE
        LET counter == st.table_counter + 1
            full_table_name == full_table_name_of(e, catalog_name, schema_name, table)
            \* no table of the layout that gets here has a "_" to replace
            table_description == dict_get(table_metadata, "description",
                                          "Stores " \o table \o " data.")
            header == Item("table", catalog_name, schema_name, table, full_table_name,
                           <<table_description>>)
            cols == get_columns(e, catalog_name, schema_name, table)
        IN  IF ~cols.ok
            THEN [st EXCEPT !.table_counter = counter,
                            !.text = @ \o <<header,
                                Item("unable", catalog_name, schema_name, table,
                                     full_table_name, <<>>)>>]
            ELSE
            LET lines == column_lines(cols.columns, table_metadata,
                                      catalog_name, schema_name, table)
                res == run_sample_query(e, catalog_name, schema_name, table)
                rows == project_rows(res.keys, res.rows, table_metadata)
                sample == IF e.with_examples /\ res.ok /\ rows # <<>>
                          THEN <<Item("sample", catalog_name, schema_name, table,
                                      full_table_name,
                                      [r \in 1..Len(rows) |->
                                          [k \in 1..Len(rows[r]) |-> rows[r][k][2]]])>>
                          ELSE <<>>
            IN  [st EXCEPT !.table_counter = counter,
                           !.text = @ \o <<header>> \o lines \o sample]

RECURSIVE table_loop(_, _, _, _, _)
table_loop(e, catalog_name, schema_name, table_names, st) ==
    IF table_names = <<>> THEN st
    ELSE table_loop(e, catalog_name, schema_name, Tail(table_names),
                    table_block(e, catalog_name, schema_name, Head(table_names), st))

RECURSIVE schema_loop(_, _, _, _)
\* db_struct.py:319-333: `for schema_name in schema_names` only lists the
\* tables; table_names is a local of the function that survives the loop
schema_loop(e, catalog_name, schema_names, st) ==
    IF schema_names = <<>> THEN st
    ELSE LET listed == list_tables(e, catalog_name, Head(schema_names))
         IN  schema_loop(e, catalog_name, Tail(schema_names),
                 IF listed.ok
                 THEN [st EXCEPT !.table_names = listed.names, !.bound = TRUE]
                 ELSE st)

RECURSIVE catalog_loop(_, _, _)
\* db_struct.py:278-461: `for catalog_name in catalog_names`
catalog_loop(e, catalog_names, st) ==
    IF catalog_names = <<>> \/ st.exc # "none" THEN st
    ELSE LET catalog_name == Head(catalog_names)
             schema_names == filter_schemas(e, _get_schemas_for_catalog(e, catalog_name))
             listed == schema_loop(e, catalog_name, schema_names, st)
             \* after the loop schema_name is the last schema of the list
             schema_name == schema_names[Len(schema_names)]
         IN  IF ~listed.bound
             THEN [listed EXCEPT !.exc = "UnboundLocalError"]
             ELSE catalog_loop(e, Tail(catalog_names),
                      table_loop(e, catalog_name, schema_name, listed.table_names, listed))

\* db_struct.py:269-276: the header line; table_names is not bound yet
WalkStart ==
    [text |-> <<Item("header", NoneStr, NoneStr, "", "", <<>>)>>, table_counter |-> 0,
     table_names |-> <<>>, bound |-> FALSE, exc |-> "none"]

\* db_struct.py:243-463
generate_schema_prompt(e) ==
    IF e.file = "no_profiles" \/ e.file = "no_profile"
    THEN [WalkStart EXCEPT !.exc = "ValueError"]
    ELSE catalog_loop(e, _get_catalogs(e), WalkStart)

(* get_db_schema and get_data_samples run the same walk with the table     *)
(* loop nested in the schema loop and collect a dict; on the federated     *)
(* engine they reuse the name `result` for the cursor of the listing.      *)

\* db_struct.py:636, 790: the item assignment raises when `result` has been
\* rebound to a cursor
assign_result(st, item) ==
    IF st.clobbered THEN [st EXCEPT !.exc = "TypeError"]
    ELSE IF \E i \in 1..Len(st.text) : st.text[i].name = item.name
    THEN [st EXCEPT !.text = [i \in 1..Len(@) |-> IF @[i].name = item.name THEN item ELSE @[i]]]
    ELSE [st EXCEPT !.text = Append(@, item)]

\* db_struct.py:558-563, 586-589, 719-724: the federated branch binds the cursor to `result`
UsesResultCursor(e, catalog_name, schema_name) ==
    e.dialect = "trino" /\ NameTruthy(catalog_name) /\ NameTruthy(schema_name)

\* db_struct.py:571-639: the body of `for table in table_names` of get_db_schema
db_schema_table_block(e, catalog_name, schema_name, table, st) ==
    IF st.exc # "none" \/ StartsWith(table, "_") \/ StartsWith(table, "temp_") THEN st
    ELSE
    LET table_metadata == _get_table_metadata_with_fallback(
                              e.descriptions, table, schema_name, catalog_name)
    IN  IF ~_should_include_table(e.descriptions, table_metadata) THEN st
        ELSE
        LET cols == get_columns(e, catalog_name, schema_name, table)
        IN  IF ~cols.ok THEN st
            ELSE
            LET st1 == IF UsesResultCursor(e, catalog_name, schema_name)
                       THEN [st EXCEPT !.clobbered = TRUE] ELSE st
                columns == visible_columns_of(cols.columns, table_metadata)
                full_table_name == full_table_name_of(e, catalog_name, schema_name, table)
            IN  assign_result(st1, Item("DbTable", catalog_name, schema_name, table,
                                        full_table_name, columns))

\* db_struct.py:732-790: the body of `for table in table_names` of get_data_samples
data_samples_table_block(e, catalog_name, schema_name, table, st) ==
    IF st.exc # "none" \/ StartsWith(table, "_") \/ StartsWith(table, "temp_") THEN st
    ELSE
    LET table_metadata == _get_table_metadata_with_fallback(
                              e.descriptions, table, schema_name, catalog_name)
    IN  IF ~_should_include_table(e.descriptions, table_metadata) THEN st
        ELSE
        LET full_table_name == IF NameTruthy(schema_name) THEN fqn2(schema_name, table)
                               ELSE table
            default_catalog == IF e.dialect = "trino" THEN FirstPathPart(e.url_database)
                               ELSE catalog_name
            res == run_sample_query(e, default_catalog, schema_name, table)
            rows == project_rows(res.keys, res.rows, table_metadata)
        IN  IF ~res.ok \/ rows = <<>> THEN st
            ELSE assign_result(st, Item("rows", catalog_name, schema_name, table,
                                        full_table_name, rows))

RECURSIVE nested_table_loop(_, _, _, _, _, _)
nested_table_loop(fn, e, catalog_name, schema_name, table_names, st) ==
    IF table_names = <<>> THEN st
    ELSE nested_table_loop(fn, e, catalog_name, schema_name, Tail(table_names),
            IF fn = "get_db_schema"
            THEN db_schema_table_block(e, catalog_name, schema_name, Head(table_names), st)
            ELSE data_samples_table_block(e, catalog_name, schema_name, Head(table_names), st))

RECURSIVE nested_schema_loop(_, _, _, _, _)
\* db_struct.py:556-571, 717-732: a schema whose listing raises is skipped
nested_schema_loop(fn, e, catalog_name, schema_names, st) ==
    IF schema_names = <<>> \/ st.exc # "none" THEN st
    ELSE LET schema_name == Head(schema_names)
             listed == list_tables(e, catalog_name, schema_name)
         IN  nested_schema_loop(fn, e, catalog_name, Tail(schema_names),
                 IF ~listed.ok THEN st
                 ELSE nested_table_loop(fn, e, catalog_name, schema_name, listed.names,
                          IF UsesResultCursor(e, catalog_name, schema_name)
                          THEN [st EXCEPT !.clobbered = TRUE] ELSE st))

RECURSIVE nested_catalog_loop(_, _, _, _)
nested_catalog_loop(fn, e, catalog_names, st) ==
    IF catalog_names = <<>> \/ st.exc # "none" THEN st
    ELSE nested_catalog_loop(fn, e, Tail(catalog_names),
            nested_schema_loop(fn, e, Head(catalog_names),
                filter_schemas(e, _get_schemas_for_catalog(e, Head(catalog_names))), st))

CollectStart == [text |-> <<>>, clobbered |-> FALSE, exc |-> "none"]

\* what `return result` hands back: the dict, or the cursor bound to the name
returned_result(st) ==
    IF st.clobbered
    THEN [st EXCEPT !.text = <<Item("CursorResult", NoneStr, NoneStr, "", "", <<>>)>>]
    ELSE st

\* db_struct.py:483-641
get_db_schema(e) ==
    IF e.file = "no_profiles" \/ e.file = "no_profile"
    THEN [CollectStart EXCEPT !.exc = "ValueError"]
    ELSE returned_result(nested_catalog_loop("get_db_schema", e, _get_catalogs(e), CollectStart))

\* db_struct.py:644-792
get_data_samples(e) ==
    IF e.file = "no_profiles" \/ e.file = "no_profile"
    THEN [CollectStart EXCEPT !.exc = "ValueError"]
    ELSE returned_result(nested_catalog_loop("get_data_samples", e, _get_catalogs(e), CollectStart))

\* profiles used by the walk: no entries; a hidden column under the short
\* key; a hidden table and a described one; entries under qualified keys
WalkOverlayTables ==
    LET E(key, i) == CHOOSE x \in TableEntries(key) :
                        CASE i = 1 -> x.keys = {"description"}
                          [] i = 2 -> "hidden" \in x.keys
                          [] i = 3 -> "columns" \in x.keys
                          [] OTHER -> x.keys = {}
    IN  { <<>>,
          [k \in {"orders"} |-> E(k, 3)],
          [k \in {"s1.orders", "events"} |-> IF k = "events" THEN E(k, 1) ELSE E(k, 2)],
          [k \in {"c1.s1.orders", "s2.orders", "users"} |->
              IF k = "s2.orders" THEN E(k, 1) ELSE E(k, 3)] }

\* the introspection steps of an environment that may raise
WalkSteps(dialect, n) ==
    {<<"get_schema_names", "", "">>}
    \cup (IF dialect = "trino"
          THEN {<<"SHOW CATALOGS", "", "">>, <<"SHOW SCHEMAS", "", "">>}
          ELSE {})
    \cup {<<"tables", c, sch>> :
            c \in (IF dialect = "trino" THEN {"c1", "c2"} ELSE {""}),
            sch \in Range(SubSeq(SchemaPool, 1, n)) \cup {NoneStr}}
    \cup {<<k, t, "">> : k \in {"columns", "sample"}, t \in {"orders", "users"}}

RECURSIVE SubsetsUpTo(_, _)
\* the subsets of S with at most k elements
SubsetsUpTo(S, k) ==
    IF k = 0 THEN {{}}
    ELSE LET smaller == SubsetsUpTo(S, k - 1)
         IN  smaller \cup { T \cup {x} : T \in smaller, x \in S }

\* get_schema_prompt_item is about to build the schema prompt (db_struct.py:466-474)
InitWalk ==
    LET WalkEnvs ==
            UNION { UNION {
                [dialect : {d}, file : {"ok"}, descriptions : Descriptions(WalkOverlayTables),
                 with_examples : BOOLEAN,
                 url_database : {NoneStr, IF d = "trino" THEN "c1/s1" ELSE "db1"},
                 n_schemas : {n}, failing : SubsetsUpTo(WalkSteps(d, n), MaxFailures)]
                : n \in 1..MaxSchemas } : d \in {"trino", "postgresql", "clickhouse"} }
            \cup
            [dialect : {"trino", "postgresql", "clickhouse"}, file : {"no_profiles", "no_profile"},
             descriptions : Descriptions({<<>>}), with_examples : {FALSE},
             url_database : {NoneStr}, n_schemas : {1}, failing : {{}}]
    IN
    /\ pc = "call"
    /\ op \in {"generate_schema_prompt", "get_db_schema", "get_data_samples"}
    /\ args \in WalkEnvs
    /\ ret = NoRet
    /\ exc = "none"
    /\ wh_engine_dialect = "clickhouse"
    /\ _CACHED_DIALECT = NoneStr

GenerateSchemaPrompt ==
    /\ pc = "call"
    /\ op = "generate_schema_prompt"
    /\ LET out == generate_schema_prompt(args)
       IN  /\ exc' = out.exc
           /\ ret' = IF out.exc = "none" THEN out.text ELSE <<>>
    /\ pc' = "done"
    /\ UNCHANGED <<op, args, wh_engine_dialect, _CACHED_DIALECT>>

GetDbSchema ==
    /\ pc = "call"
    /\ op = "get_db_schema"
    /\ LET out == get_db_schema(args)
       IN  /\ exc' = out.exc
           /\ ret' = IF out.exc = "none" THEN out.text ELSE <<>>
    /\ pc' = "done"
    /\ UNCHANGED <<op, args, wh_engine_dialect, _CACHED_DIALECT>>

GetDataSamples ==
    /\ pc = "call"
    /\ op = "get_data_samples"
    /\ LET out == get_data_samples(args)
       IN  /\ exc' = out.exc
           /\ ret' = IF out.exc = "none" THEN out.text ELSE <<>>
    /\ pc' = "done"
    /\ UNCHANGED <<op, args, wh_engine_dialect, _CACHED_DIALECT>>

SpecWalk == InitWalk /\ [][GenerateSchemaPrompt \/ GetDbSchema \/ GetDataSamples]_vars

WalkDone == pc = "done" /\ op \in {"generate_schema_prompt", "get_db_schema", "get_data_samples"}

\* the schemas the walk iterates for a catalog, and those whose listing works
WalkedSchemas(e, c) == filter_schemas(e, _get_schemas_for_catalog(e, c))
ListedSchemas(e, c) ==
    { sch \in Range(WalkedSchemas(e, c)) : list_tables(e, c, sch).ok }

\* the tables of a listed schema that the overlay leaves visible
VisibleTables(e, c, sch) ==
    { t \in Range(list_tables(e, c, sch).names) :
        /\ ~StartsWith(t, "_") /\ ~StartsWith(t, "temp_")
        /\ _should_include_table(e.descriptions,
               _get_table_metadata_with_fallback(e.descriptions, t, sch, c)) }

HasTableLine(text, name) ==
    \E i \in 1..Len(text) : text[i].kind \in {"table", "DbTable"} /\ text[i].name = name

\* some schema the walk iterates fails to list its tables
SomeListingFails(e) ==
    \E c \in Range(_get_catalogs(e)) :
        \E sch \in Range(WalkedSchemas(e, c)) : ~list_tables(e, c, sch).ok

\* C2: a failure at a step of the walk prunes only that branch: the walk
\* never aborts, and a schema whose table listing fails does not remove the
\* results of the schemas that were listed (each visible table of a listed
\* schema is rendered under its own schema).
C2_FailurePrunesOnlyItsBranch ==
    (/\ WalkDone /\ op \in {"generate_schema_prompt", "get_db_schema"}
     /\ args.file = "ok" /\ SomeListingFails(args)) =>
        /\ exc = "none"
        /\ \A c \in Range(_get_catalogs(args)) :
             \A sch \in ListedSchemas(args, c) :
               \A t \in VisibleTables(args, c, sch) :
                  HasTableLine(ret, full_table_name_of(args, c, sch, t))

\* C25: the rendered schema text contains every visible table of every
\* schema whose table listing succeeded, for every catalog, each under the
\* schema it was listed from: no listed schema's tables are dropped and no
\* table is attributed to a different schema (here already when no step of
\* the walk fails).
C25_EveryListedTableRendered ==
    (pc = "done" /\ op = "generate_schema_prompt" /\ args.file = "ok" /\ args.failing = {}) =>
        /\ exc = "none"
        /\ \A c \in Range(_get_catalogs(args)) :
             \A sch \in ListedSchemas(args, c) :
               \A t \in VisibleTables(args, c, sch) :
                  HasTableLine(ret, full_table_name_of(args, c, sch, t))
        /\ \A i \in 1..Len(ret) :
             ret[i].kind = "table" =>
                \E c \in Range(_get_catalogs(args)) :
                  \E sch \in ListedSchemas(args, c) :
                    \E t \in VisibleTables(args, c, sch) :
                       ret[i].name = full_table_name_of(args, c, sch, t)

\* C5: a column that the resolved overlay descriptor of its table marks
\* hidden appears neither as a column line of the rendered schema text nor
\* (by name or by value) in a projected sample row.
C5_HiddenColumnsNeverShown ==
    (WalkDone /\ exc = "none") =>
        \A i \in 1..Len(ret) :
            LET it == ret[i]
                table_metadata == _get_table_metadata_with_fallback(
                                      args.descriptions, it.table, it.schema, it.catalog)
                hidden == { c \in Range(ColumnsOf(it.table)) :
                              "columns" \in table_metadata.keys
                              /\ c \in DOMAIN table_metadata.columns
                              /\ table_metadata.columns[c].hidden }
                HiddenValues == { CellValue(h, row) :
                                    h \in hidden, row \in Range(SampleRowsOf(it.table)) }
            IN  /\ it.kind = "column" => it.name \notin hidden
                /\ it.kind = "DbTable" => Range(it.vals) \cap hidden = {}
                /\ it.kind = "sample" =>
                      \A r \in 1..Len(it.vals) : Range(it.vals[r]) \cap HiddenValues = {}
                /\ it.kind = "rows" =>
                      \A r \in 1..Len(it.vals) : \A k \in 1..Len(it.vals[r]) :
                          /\ it.vals[r][k][1] \notin hidden
                          /\ it.vals[r][k][2] \notin HiddenValues

\* a table with a hidden column was rendered and sampled: its visible
\* columns are shown, with the values of the right positions
C5_Witness ==
    /\ WalkDone /\ exc = "none"
    /\ \E i \in 1..Len(ret) :
          /\ ret[i].kind = "sample"
          /\ ret[i].table = "orders"
          /\ col_hidden(_get_table_metadata_with_fallback(
                            args.descriptions, "orders", ret[i].schema, ret[i].catalog),
                        "secret")
          /\ ret[i].vals[1] = <<CellValue("id", "r1"), CellValue("amount", "r1")>>

(***************************************************************************)
(* dbmeta_app/prompt_items/db_struct.py : EXPLAIN estimates and preflight   *)
(* A plan row is a dict, held as a sequence of <<key, value>>.  A text is a *)
(* sequence of tokens: plain text, or one occurrence of an estimate with    *)
(* the character runs that the capture groups of the patterns take from it. *)
(***************************************************************************)
MaxPlanRows == 2

IntVal(n) == [t |-> "int", n |-> n, text |-> <<>>]
StrVal(text) == [t |-> "str", n |-> 0, text |-> text]
NoneVal == [t |-> "none", n |-> 0, text |-> <<>>]

\* tokens of a plan text: "...", "rows: 1,000", "Estimates: {rows: 7 (1.5GB)"
Noise == [kind |-> "noise", rows_str |-> <<>>, size_str |-> <<>>, size_unit |-> ""]
RowsTok(r) == [kind |-> "rows", rows_str |-> r, size_str |-> <<>>, size_unit |-> ""]
EstTok(r, s, u) == [kind |-> "estimate", rows_str |-> r, size_str |-> s, size_unit |-> u]

\* Python truthiness of a dict value
ValTruthy(v) ==
    CASE v.t = "int" -> v.n # 0
      [] v.t = "str" -> v.text # <<>>
      [] OTHER -> FALSE

\* `key in row` and row.get(key)
row_has(row, key) == \E i \in 1..Len(row) : row[i][1] = key
row_get(row, key) ==
    IF row_has(row, key)
    THEN row[CHOOSE i \in 1..Len(row) : row[i][1] = key][2]
    ELSE NoneVal

\* a or b
PyOr(a, b) == IF ValTruthy(a) THEN a ELSE b

\* an unset estimate, a row count, a size (in hundredths of its unit)
NoEstimate == [some |-> FALSE, val |-> 0, unit |-> ""]
Estimate(val, unit) == [some |-> TRUE, val |-> val, unit |-> unit]

DigitOf(c) ==
    CASE c = "0" -> 0 [] c = "1" -> 1 [] c = "2" -> 2 [] c = "3" -> 3 [] c = "4" -> 4
      [] c = "5" -> 5 [] c = "6" -> 6 [] c = "7" -> 7 [] c = "8" -> 8 [] c = "9" -> 9

RECURSIVE digits_value(_)
digits_value(s) ==
    IF s = <<>> THEN 0
    ELSE digits_value(SubSeq(s, 1, Len(s) - 1)) * 10 + DigitOf(s[Len(s)])

\* rows_str.replace(",", "")
replace_commas(s) == LET NotComma(c) == c # "," IN SelectSeq(s, NotComma)

\* int(s) of a run of digits: ValueError on the empty string
int_raises(s) == s = <<>>

\* float(s) of a run of digits and dots: ValueError unless it holds a digit
\* and at most one dot
float_raises(s) == Count(s, ".") > 1 \/ Count(s, ".") = Len(s)

\* the value of float(s) in hundredths (texts carry at most two decimals)
float_centi(s) ==
    LET dot == Find(s, ".")
        whole == IF dot = 0 THEN s ELSE SubSeq(s, 1, dot - 1)
        frac == IF dot = 0 THEN <<>> ELSE SubSeq(s, dot + 1, Len(s))
        frac2 == SubSeq(frac \o <<"0", "0">>, 1, 2)
    IN  digits_value(whole) * 100 + digits_value(frac2)

\* power of 1024 that converts the unit to bytes (db_struct.py:893-904)
UnitExp(unit) ==
    CASE unit = "KB" -> 1 [] unit = "MB" -> 2 [] unit = "GB" -> 3 [] unit = "TB" -> 4
      [] OTHER -> 0

\* size_gb > max_size_gb for two sizes below 2^20 hundredths of their units
GreaterGb(a, b) ==
    LET d == UnitExp(a.unit) - UnitExp(b.unit)
    IN  IF d = 0 THEN a.val > b.val
        ELSE IF d > 0
        THEN a.val > 0 /\ (d >= 2 \/ a.val * 1024 > b.val)
        ELSE IF b.val = 0 THEN a.val > 0
        ELSE (-d) < 2 /\ a.val > b.val * 1024

ParseStart == [max_rows |-> NoEstimate, max_size_gb |-> NoEstimate, exc |-> "none"]

\* if max_rows is None or rows > max_rows: max_rows = rows
update_max_rows(st, rows) ==
    IF ~st.max_rows.some \/ rows > st.max_rows.val
    THEN [st EXCEPT !.max_rows = Estimate(rows, "rows")] ELSE st

RECURSIVE clickhouse_matches_loop(_, _)
\* db_struct.py:841-844
clickhouse_matches_loop(matches, st) ==
    IF matches = <<>> \/ st.exc # "none" THEN st
    ELSE LET digits == replace_commas(Head(matches))
         IN  clickhouse_matches_loop(Tail(matches),
                 IF int_raises(digits) THEN [st EXCEPT !.exc = "ValueError"]
                 ELSE update_max_rows(st, digits_value(digits)))

\* db_struct.py:814-844: the body of `for row in explanation_rows`
clickhouse_row(row, st) ==
    IF row_has(row, "rows") /\ row_get(row, "rows").t = "int"
    THEN update_max_rows(st, row_get(row, "rows").n)
    ELSE LET explanation_text ==
                 IF row # <<>>
                 THEN PyOr(row_get(row, "explain"),
                           PyOr(row_get(row, "plan"),
                                PyOr(row_get(row, "EXPLAIN"), row[1][2])))
                 ELSE StrVal(<<>>)
         IN  IF ~ValTruthy(explanation_text) \/ explanation_text.t # "str" THEN st
             ELSE LET HasRows(tok) == tok.kind \in {"rows", "estimate"}
                      found == SelectSeq(explanation_text.text, HasRows)
                  IN  clickhouse_matches_loop([i \in 1..Len(found) |-> found[i].rows_str], st)

RECURSIVE clickhouse_rows_loop(_, _)
clickhouse_rows_loop(explanation_rows, st) ==
    IF explanation_rows = <<>> \/ st.exc # "none" THEN st
    ELSE clickhouse_rows_loop(Tail(explanation_rows),
                              clickhouse_row(Head(explanation_rows), st))

\* db_struct.py:795-850; (max_rows * 1024) bytes are max_rows KB
parse_clickhouse_estimates(explanation_rows) ==
    LET st == clickhouse_rows_loop(explanation_rows, ParseStart)
    IN  IF st.exc = "none" /\ st.max_rows.some
        THEN [st EXCEPT !.max_size_gb = Estimate(st.max_rows.val * 100, "KB")]
        ELSE st

RECURSIVE trino_matches_loop(_, _)
\* db_struct.py:883-907
trino_matches_loop(matches, st) ==
    IF matches = <<>> \/ st.exc # "none" THEN st
    ELSE LET match == Head(matches)
             digits == replace_commas(match.rows_str)
         IN  trino_matches_loop(Tail(matches),
                 IF int_raises(digits) \/ float_raises(match.size_str)
                 THEN [st EXCEPT !.exc = "ValueError"]
                 ELSE LET st1 == update_max_rows(st, digits_value(digits))
                          size_gb == Estimate(float_centi(match.size_str), match.size_unit)
                      IN  IF ~st1.max_size_gb.some \/ GreaterGb(size_gb, st1.max_size_gb)
                          THEN [st1 EXCEPT !.max_size_gb = size_gb] ELSE st1)

\* db_struct.py:872-907: the body of `for row in explanation_rows`; a plan
\* that is not a string makes re.findall raise
trino_row(row, st) ==
    LET query_plan == IF row_has(row, "Query Plan") THEN row_get(row, "Query Plan")
                      ELSE StrVal(<<>>)
    IN  IF ~ValTruthy(query_plan) THEN st
        ELSE IF query_plan.t # "str" THEN [st EXCEPT !.exc = "TypeError"]
        ELSE LET IsEstimate(tok) == tok.kind = "estimate"
             IN  trino_matches_loop(SelectSeq(query_plan.text, IsEstimate), st)

RECURSIVE trino_rows_loop(_, _)
trino_rows_loop(explanation_rows, st) ==
    IF explanation_rows = <<>> \/ st.exc # "none" THEN st
    ELSE trino_rows_loop(Tail(explanation_rows), trino_row(Head(explanation_rows), st))

\* db_struct.py:853-909
parse_trino_estimates(explanation_rows) == trino_rows_loop(explanation_rows, ParseStart)

\* PreflightResult(...) (db_struct.py:85-89)
PreflightResult(explanation, error, estimated_rows, estimated_output_size_gb) ==
    [explanation |-> explanation, error |-> error, estimated_rows |-> estimated_rows,
     estimated_output_size_gb |-> estimated_output_size_gb]

\* an except clause that lets the exception go on to the caller
except_result_reraised(name) == [result |-> NoRet, exc |-> name]

\* db_struct.py:968-969: except Exception as e: return PreflightResult(error=...)
except_result(name) ==
    [result |-> PreflightResult(None, "SQL error: " \o name, NoEstimate, NoEstimate),
     exc |-> "none"]

\* a preflight that lets a failure of the estimate parser leave the call
query_preflight_unguarded(e) ==
    IF e.connect_raises
    THEN [result |-> NoRet, exc |-> "OperationalError"]
    ELSE IF e.explain_raises
    THEN except_result("ProgrammingError")
    ELSE LET est == CASE e.dialect = "trino" -> parse_trino_estimates(e.rows)
                      [] e.dialect = "clickhouse" -> parse_clickhouse_estimates(e.rows)
                      [] OTHER -> ParseStart
         IN  [result |-> PreflightResult(Some(e.rows), NoneStr, est.max_rows, est.max_size_gb),
              exc |-> est.exc]

\* db_struct.py:912-969: the result, and the exception that leaves the call
query_preflight(e) ==
    IF e.connect_raises
    THEN [result |-> NoRet, exc |-> "OperationalError"]
    ELSE IF e.explain_raises
    THEN except_result("ProgrammingError")
    ELSE LET est == CASE e.dialect = "trino" -> parse_trino_estimates(e.rows)
                      [] e.dialect = "clickhouse" -> parse_clickhouse_estimates(e.rows)
                      [] OTHER -> ParseStart
         IN  IF est.exc # "none"
             THEN except_result(est.exc)
             ELSE [result |-> PreflightResult(Some(e.rows), NoneStr,
                                              est.max_rows, est.max_size_gb),
                   exc |-> "none"]

\* rows of EXPLAIN [ESTIMATE] on ClickHouse and of EXPLAIN on Trino; the
\* character runs are what the capture groups ([\d,]+) and ([\d.]+) can hold
PlanRows(dialect) ==
    LET R7 == <<"7">>
        R12 == <<"1", "2">>
        R1c0 == <<"1", ",", "0">>
        Rc == <<",">>
        F7 == <<"7">>
        F1p5 == <<"1", ".", "5">>
    IN  IF dialect = "trino"
        THEN { <<>>,
               << <<"explain", StrVal(<<EstTok(R7, F7, "GB")>>)>> >>,
               << <<"Query Plan", NoneVal>> >>,
               << <<"Query Plan", IntVal(3)>> >> }
             \cup { << <<"Query Plan", StrVal(text)>> >> :
                      text \in { <<>>, <<Noise>>, <<RowsTok(R7)>>,
                                 <<EstTok(R1c0, F7, "MB")>>,
                                 <<EstTok(R12, <<".", "5">>, "TB")>>,
                                 <<EstTok(R7, <<"1", ".">>, "B")>>,
                                 <<EstTok(R7, F7, "GB"), Noise, EstTok(R12, F1p5, "KB")>> }
                               \cup { <<EstTok(r, f, u)>> :
                                        r \in {R7, Rc},
                                        f \in {F7, F1p5, <<".">>, <<"1", ".", "2", ".", "3">>},
                                        u \in {"KB", "GB"} } }
        ELSE { <<>>,
               << <<"database", StrVal(<<Noise>>)>>, <<"rows", IntVal(5)>> >>,
               << <<"rows", IntVal(0)>> >>,
               << <<"rows", StrVal(<<RowsTok(R7)>>)>> >>,
               << <<"explain", NoneVal>>, <<"plan", StrVal(<<Noise, RowsTok(R12)>>)>> >>,
               << <<"EXPLAIN", StrVal(<<RowsTok(R1c0), Noise, RowsTok(R7)>>)>> >>,
               << <<"other", IntVal(3)>>, <<"more", StrVal(<<RowsTok(R7)>>)>> >>,
               << <<"other", StrVal(<<EstTok(R12, F7, "GB")>>)>> >> }
             \cup { << <<"explain", StrVal(text)>> >> :
                      text \in { <<>>, <<Noise>>, <<RowsTok(R7)>>, <<RowsTok(R1c0)>>,
                                 <<RowsTok(Rc)>>, <<RowsTok(R12), RowsTok(Rc)>> } }

\* lists of at most n rows
ListsUpTo(S, n) == UNION { [1..k -> S] : k \in 0..n }

\* the EXPLAIN rows are fetched and about to be parsed (db_struct.py:946-960)
InitEstimates ==
    LET EstimateArgs ==
            [fn : {"parse_clickhouse_estimates"}, dialect : {"clickhouse"},
             rows : ListsUpTo(PlanRows("clickhouse"), MaxPlanRows),
             connect_raises : {FALSE}, explain_raises : {FALSE}]
            \cup
            [fn : {"parse_trino_estimates"}, dialect : {"trino"},
             rows : ListsUpTo(PlanRows("trino"), MaxPlanRows),
             connect_raises : {FALSE}, explain_raises : {FALSE}]
            \cup
            [fn : {"query_preflight"}, dialect : {"clickhouse", "postgresql", "sqlite"},
             rows : ListsUpTo(PlanRows("clickhouse"), 1),
             connect_raises : BOOLEAN, explain_raises : BOOLEAN]
            \cup
            [fn : {"query_preflight"}, dialect : {"trino"},
             rows : ListsUpTo(PlanRows("trino"), 1),
             connect_raises : BOOLEAN, explain_raises : BOOLEAN]
    IN
    /\ pc = "call"
    /\ args \in EstimateArgs
    /\ op = args.fn
    /\ ret = NoRet
    /\ exc = "none"
    /\ wh_engine_dialect = "clickhouse"
    /\ _CACHED_DIALECT = NoneStr

ParseClickhouseEstimates ==
    /\ pc = "call"
    /\ op = "parse_clickhouse_estimates"
    /\ LET out == parse_clickhouse_estimates(args.rows)
       IN  /\ exc' = out.exc
           /\ ret' = IF out.exc = "none"
                     THEN [estimated_rows |-> out.max_rows,
                           estimated_size_gb |-> out.max_size_gb]
                     ELSE NoRet
    /\ pc' = "done"
    /\ UNCHANGED <<op, args, wh_engine_dialect, _CACHED_DIALECT>>

ParseTrinoEstimates ==
    /\ pc = "call"
    /\ op = "parse_trino_estimates"
    /\ LET out == parse_trino_estimates(args.rows)
       IN  /\ exc' = out.exc
           /\ ret' = IF out.exc = "none"
                     THEN [estimated_rows |-> out.max_rows,
                           estimated_size_gb |-> out.max_size_gb]
                     ELSE NoRet
    /\ pc' = "done"
    /\ UNCHANGED <<op, args, wh_engine_dialect, _CACHED_DIALECT>>

QueryPreflight ==
    /\ pc = "call"
    /\ op = "query_preflight"
    /\ LET out == query_preflight(args)
       IN  /\ exc' = out.exc
           /\ ret' = out.result
    /\ pc' = "done"
    /\ UNCHANGED <<op, args, wh_engine_dialect, _CACHED_DIALECT>>

SpecEstimates == InitEstimates /\ [][ParseClickhouseEstimates \/ ParseTrinoEstimates \/ QueryPreflight]_vars

ParserDone == pc = "done" /\ op \in {"parse_clickhouse_estimates", "parse_trino_estimates"}

\* C10: the estimate parsers never raise: whatever the plan rows hold, the
\* call returns, and returns both estimates unset when no row carries a
\* well-formed estimate.
C10_ParserNeverRaises ==
    ParserDone => exc = "none"

(***************************************************************************)
(* fm_app/validators/metadata_validator.py                                  *)
(* The SQL text is held as what sqlglot.parse_one makes of it: a failure,   *)
(* a statement without SELECT, or the select list of the outermost SELECT.  *)
(***************************************************************************)
MaxExprs == 2
MaxMdCols == 2

\* one expression of a select list: alias ("" when absent), kind, the column
\* name (kind "column") and the rendered SQL of the expression
Expr(kind, alias, name, sql_text) ==
    [kind |-> kind, alias |-> alias, name |-> name, sql_text |-> sql_text]

\* \w of the regular expressions, for the characters of the model
WordChars == {"a", "A", "b", "B", "f", "t", "_", "0", "1", "2", "3", "4", "5", "6",
              "7", "8", "9"}

RECURSIVE select_columns_skip_star(_, _)
\* an extraction that passes over a star and keeps the other names
select_columns_skip_star(expressions, result_columns) ==
    IF expressions = <<>> THEN result_columns
    ELSE LET expression == Head(expressions)
         IN  IF expression.alias # <<>>
             THEN select_columns_skip_star(Tail(expressions),
                                           Append(result_columns, expression.alias))
             ELSE IF expression.kind = "column"
             THEN select_columns_skip_star(Tail(expressions),
                                           Append(result_columns, expression.name))
             ELSE select_columns_skip_star(Tail(expressions), result_columns)

RECURSIVE select_columns(_, _)
\* metadata_validator.py:54-78: a star ends the extraction with an empty list
select_columns(expressions, result_columns) ==
    IF expressions = <<>> THEN result_columns
    ELSE LET expression == Head(expressions)
         IN  IF expression.alias # <<>>
             THEN select_columns(Tail(expressions), Append(result_columns, expression.alias))
             ELSE IF expression.kind = "column"
             THEN select_columns(Tail(expressions), Append(result_columns, expression.name))
             ELSE IF expression.kind = "star"
             THEN <<>>
             ELSE select_columns(Tail(expressions),
                                 Append(result_columns,
                                        [i \in 1..Len(expression.sql_text) |->
                                            IF expression.sql_text[i] \in WordChars
                                            THEN expression.sql_text[i] ELSE "_"]))

\* metadata_validator.py:24-84: every failure leaves as MetadataValidationError
extract_result_columns(sql) ==
    IF sql.kind \in {"empty", "parse_error", "no_select"}
    THEN [exc |-> "MetadataValidationError", columns |-> <<>>]
    ELSE [exc |-> "none", columns |-> select_columns(sql.expressions, <<>>)]

\* one line of the errors / warnings lists: what it reports, about which names
Line(kind, names) == [kind |-> kind, names |-> names]

ValidationResult(valid, errors, warnings, sql_columns, metadata_columns) ==
    [valid |-> valid, errors |-> errors, warnings |-> warnings,
     sql_columns |-> sql_columns, metadata_columns |-> metadata_columns]

\* re.match(r"^[A-Za-z_][A-Za-z0-9_]*$", column_name)
is_identifier(name) ==
    /\ name # <<>>
    /\ name[1] \in WordChars \ {"0", "1", "2", "3", "4", "5", "6", "7", "8", "9"}
    /\ \A i \in 1..Len(name) : name[i] \in WordChars

\* metadata_validator.py:174-194: the checks on the column_name of one column
column_name_lines(col) ==
    IF ~Truthy(col.column_name) THEN <<>>
    ELSE LET n == col.column_name.val
             HasChar(c) == \E i \in 1..Len(n) : n[i] = c
         IN  (IF HasChar("(") /\ HasChar(")") THEN <<Line("function", <<n>>)>> ELSE <<>>)
             \o (IF HasChar(".") THEN <<Line("table_prefix", <<n>>)>> ELSE <<>>)
             \o (IF ~is_identifier(n) THEN <<Line("not_identifier", <<n>>)>> ELSE <<>>)

RECURSIVE flat_map_lines(_)
flat_map_lines(columns) ==
    IF columns = <<>> THEN <<>>
    ELSE column_name_lines(Head(columns)) \o flat_map_lines(Tail(columns))

\* metadata_validator.py:86-206
validate_metadata(metadata) ==
    IF metadata.sql.kind = "empty"
    THEN ValidationResult(FALSE, <<Line("no_sql", <<>>)>>, <<>>, <<>>, <<>>)
    ELSE
    LET extracted == extract_result_columns(metadata.sql)
        sql_columns == extracted.columns
    IN  IF extracted.exc # "none"
        THEN ValidationResult(FALSE, <<Line("parse_failed", <<>>)>>, <<>>, <<>>, <<>>)
        ELSE IF sql_columns = <<>>
        THEN ValidationResult(TRUE, <<>>, <<Line("skipped", <<>>)>>, <<>>, <<>>)
        ELSE
        LET columns == IF metadata.columns.some THEN metadata.columns.val ELSE <<>>
            Named(col) == Truthy(col.column_name)
            named == SelectSeq(columns, Named)
            metadata_columns == [i \in 1..Len(named) |-> named[i].column_name.val]
            sql_columns_normalized == { strip(lower(c)) : c \in Range(sql_columns) }
            metadata_columns_normalized == { strip(lower(c)) : c \in Range(metadata_columns) }
            missing_in_metadata == sql_columns_normalized \ metadata_columns_normalized
            extra_in_metadata == metadata_columns_normalized \ sql_columns_normalized
            Unnamed(col) == ~Truthy(col.column_name)
            unnamed == SelectSeq(columns, Unnamed)
            errors ==
                (IF missing_in_metadata # {}
                 THEN <<Line("missing_in_metadata", sorted(missing_in_metadata))>> ELSE <<>>)
                \o (IF extra_in_metadata # {}
                    THEN <<Line("extra_in_metadata", sorted(extra_in_metadata))>> ELSE <<>>)
                \o flat_map_lines(columns)
            warnings == [i \in 1..Len(unnamed) |-> Line("no_column_name", <<unnamed[i].id>>)]
        IN  ValidationResult(errors = <<>>, errors, warnings, sql_columns, metadata_columns)

\* a validate_and_raise whose message leaves the warnings out
validate_and_raise_errors_only(metadata) ==
    LET result == validate_metadata(metadata)
    IN  IF ~result.valid
        THEN [exc |-> "MetadataValidationError",
              error_msg |-> <<Line("header", <<>>)>> \o result.errors]
        ELSE [exc |-> "none", error_msg |-> <<>>]

\* metadata_validator.py:208-232: the lines of the message of the exception
\* ("QueryMetadata validation failed:", one line per error, then "Warnings:"
\* and one line per warning when there are any), or no exception
validate_and_raise(metadata) ==
    LET result == validate_metadata(metadata)
    IN  IF ~result.valid
        THEN [exc |-> "MetadataValidationError",
              error_msg |-> <<Line("header", <<>>)>> \o result.errors
                            \o (IF result.warnings # <<>>
                                THEN <<Line("warnings_header", <<>>)>> \o result.warnings
                                ELSE <<>>)]
        ELSE [exc |-> "none", error_msg |-> <<>>]

\* what parse_one can make of the SQL: the select lists hold a plain column,
\* a qualified column, an aliased call, a call without alias, a star, and a
\* qualified star t.*, which sqlglot parses as exp.Column(this=exp.Star()),
\* a Column whose name is "*"
ParsedSqls ==
    LET SelectExprs ==
            { Expr("column", <<>>, <<"a">>, <<"a">>),
              Expr("column", <<>>, <<"A">>, <<"t", ".", "A">>),
              Expr("other", <<"b">>, <<>>, <<"f", "(", "a", ")">>),
              Expr("other", <<>>, <<>>, <<"f", "(", "a", ")">>),
              Expr("star", <<>>, <<>>, <<"*">>),
              Expr("column", <<>>, <<"*">>, <<"t", ".", "*">>) }
    IN  { [kind |-> k, expressions |-> <<>>] : k \in {"empty", "parse_error", "no_select"} }
        \cup { [kind |-> "select", expressions |-> es] :
                 es \in UNION { [1..n -> SelectExprs] : n \in 1..MaxExprs } }

\* the flow has QueryMetadata from the model and is about to validate it
InitMetadata ==
    LET MetadataArgs ==
            LET MdNames == { <<"a">>, <<"A">>, <<"a", " ">>, <<"t", ".", "a">>, <<"1", "(", ")">> }
                MdColumns == [id : {<<"c">>}, column_name : {Some(n) : n \in MdNames} \cup {None}]
            IN
            [fn : {"validate_metadata", "validate_and_raise"},
             sql : ParsedSqls,
             columns : {None} \cup { Some(cs) : cs \in UNION { [1..n -> MdColumns] : n \in 0..MaxMdCols } },
             dialect : {NoneStr, "postgres"}]
            \cup
            [fn : {"extract_result_columns"}, sql : ParsedSqls, columns : {None},
             dialect : {NoneStr, "postgres"}]
    IN
    /\ pc = "call"
    /\ args \in MetadataArgs
    /\ op = args.fn
    /\ ret = NoRet
    /\ exc = "none"
    /\ wh_engine_dialect = "trino"
    /\ _CACHED_DIALECT = NoneStr

\* `if dialect is None: dialect = get_cached_warehouse_dialect()`
CacheAfterCall ==
    IF args.dialect = NoneStr
    THEN get_cached_warehouse_dialect(_CACHED_DIALECT, wh_engine_dialect)
    ELSE _CACHED_DIALECT

ExtractResultColumns ==
    /\ pc = "call"
    /\ op = "extract_result_columns"
    /\ LET out == extract_result_columns(args.sql)
       IN  /\ exc' = out.exc
           /\ ret' = IF out.exc = "none" THEN out.columns ELSE NoRet
    /\ _CACHED_DIALECT' = CacheAfterCall
    /\ pc' = "done"
    /\ UNCHANGED <<op, args, wh_engine_dialect>>

ValidateMetadata ==
    /\ pc = "call"
    /\ op = "validate_metadata"
    /\ ret' = validate_metadata(args)
    /\ exc' = "none"
    /\ _CACHED_DIALECT' = CacheAfterCall
    /\ pc' = "done"
    /\ UNCHANGED <<op, args, wh_engine_dialect>>

ValidateAndRaise ==
    /\ pc = "call"
    /\ op = "validate_and_raise"
    /\ LET out == validate_and_raise(args)
       IN  /\ exc' = out.exc
           /\ ret' = IF out.exc = "none" THEN NoRet ELSE [error_msg |-> out.error_msg]
    /\ _CACHED_DIALECT' = CacheAfterCall
    /\ pc' = "done"
    /\ UNCHANGED <<op, args, wh_engine_dialect>>

SpecMetadata == InitMetadata /\ [][ExtractResultColumns \/ ValidateMetadata \/ ValidateAndRaise]_vars

\* the select list of the SQL holds a star
HasStar(sql) ==
    /\ sql.kind = "select"
    /\ \E i \in 1..Len(sql.expressions) :
          sql.expressions[i].kind = "star" /\ sql.expressions[i].alias = <<>>

\* C13: when the extraction of the result columns comes back empty (a star
\* in the select list), validate_metadata returns valid=true, no errors, and
\* the one warning that validation was skipped, whatever the metadata
\* columns are.
C13_EmptyExtractionSkipsValidation ==
    (pc = "done" /\ op = "validate_metadata" /\ HasStar(args.sql)) =>
        ret = ValidationResult(TRUE, <<>>, <<Line("skipped", <<>>)>>, <<>>, <<>>)

\* SELECT a, * validated against metadata whose column name is not an identifier
C13_Witness ==
    /\ pc = "done" /\ op = "validate_metadata"
    /\ Len(args.sql.expressions) = 2
    /\ args.sql.expressions[1].kind = "column"
    /\ args.sql.expressions[2].kind = "star"
    /\ args.columns.some /\ Len(args.columns.val) = 1
    /\ args.columns.val[1].column_name = Some(<<"1", "(", ")">>)
    /\ ret.valid /\ ret.errors = <<>> /\ ret.warnings = <<Line("skipped", <<>>)>>

\* the expression is a wildcard: * or t.*
IsWildcard(expression) == expression.sql_text[Len(expression.sql_text)] = "*"

\* the name the claim gives an output expression
ClaimedName(expression) ==
    IF expression.alias # <<>> THEN expression.alias
    ELSE IF expression.kind = "column" THEN expression.name
    ELSE [i \in 1..Len(expression.sql_text) |->
            IF expression.sql_text[i] \in WordChars THEN expression.sql_text[i] ELSE "_"]

\* C28: result-column extraction names each output expression of the
\* outermost SELECT, in select-list order, by its alias if it has one, else
\* by the bare column name, else by the rendered expression with every
\* non-identifier character replaced by _; if any output expression is a
\* wildcard, extraction aborts and returns an empty list.
C28_ExtractionNamesOrAborts ==
    (pc = "done" /\ op = "extract_result_columns" /\ args.sql.kind = "select") =>
        /\ exc = "none"
        /\ ret = IF \E i \in 1..Len(args.sql.expressions) : IsWildcard(args.sql.expressions[i])
                 THEN <<>>
                 ELSE [i \in 1..Len(args.sql.expressions) |-> ClaimedName(args.sql.expressions[i])]

RaiseDone == pc = "done" /\ op = "validate_and_raise"

\* C12 (as stated): on valid=false the raised error contains every error
\* line, any warnings, and the SQL result columns and the metadata columns;
\* on valid=true nothing is raised.
C12_ErrorCarriesColumns ==
    RaiseDone =>
        LET result == validate_metadata(args)
        IN  /\ result.valid => exc = "none"
            /\ ~result.valid =>
                  /\ exc = "MetadataValidationError"
                  /\ Range(result.errors) \cup Range(result.warnings)
                        \subseteq Range(ret.error_msg)
                  /\ Line("sql_columns", result.sql_columns) \in Range(ret.error_msg)
                  /\ Line("metadata_columns", result.metadata_columns)
                        \in Range(ret.error_msg)

\* C12 (amended): on valid=false the raised error is the header line, every
\* error line in order and, when there are warnings, the warnings header and
\* every warning line; it holds no line for the SQL result columns or the
\* metadata columns.  On valid=true nothing is raised.
C12_ErrorCarriesErrorsAndWarnings ==
    RaiseDone =>
        LET result == validate_metadata(args)
        IN  /\ result.valid => (exc = "none" /\ ret = NoRet)
            /\ ~result.valid =>
                  /\ exc = "MetadataValidationError"
                  /\ ret.error_msg =
                        <<Line("header", <<>>)>> \o result.errors
                        \o (IF result.warnings = <<>> THEN <<>>
                            ELSE <<Line("warnings_header", <<>>)>> \o result.warnings)
                  /\ \A i \in 1..Len(ret.error_msg) :
                        ret.error_msg[i].kind \notin {"sql_columns", "metadata_columns"}

\* an invalid metadata with a warning was refused: SQL and metadata columns
\* were extracted, and the message holds the errors and the warning only
C12_Witness ==
    /\ RaiseDone
    /\ exc = "MetadataValidationError"
    /\ validate_metadata(args).sql_columns # <<>>
    /\ validate_metadata(args).metadata_columns # <<>>
    /\ validate_metadata(args).warnings # <<>>
    /\ Len(ret.error_msg) = Len(validate_metadata(args).errors) + 3

WalkOps == {"generate_schema_prompt", "get_db_schema", "get_data_samples"}

MaxThreads == 2

\* one bytecode-level step of an invocation; th is the invocation's frame
\* (its position, its local `dialect`, whether it wrote the cache, its return
\* value), cached is the module global as the step finds it
invocation_step_remembers_dialect(call, th, cached, engine_name) ==
    IF call.fn = "validate_sort_column"
    THEN [th |-> [th EXCEPT !.pc = "done",
                            !.result = validate_sort_column(call.a.sort_by, call.a.columns)],
          cached |-> cached]
    ELSE IF call.fn = "parse_trino_estimates"
    THEN [th |-> [th EXCEPT !.pc = "done", !.result = parse_trino_estimates(call.a.rows)],
          cached |-> cached]
    ELSE CASE th.pc = "call" ->
                IF call.a.dialect = NoneStr
                THEN [th |-> [th EXCEPT !.pc = "check"], cached |-> cached]
                ELSE [th |-> [th EXCEPT !.pc = "build", !.dialect = call.a.dialect],
                      cached |-> call.a.dialect]
           [] th.pc = "check" ->
                [th |-> [th EXCEPT !.pc = IF cached = NoneStr THEN "detect" ELSE "return"],
                 cached |-> cached]
           [] th.pc = "detect" ->
                [th |-> [th EXCEPT !.pc = "return", !.wrote = TRUE],
                 cached |-> get_warehouse_dialect(engine_name)]
           [] th.pc = "return" ->
                [th |-> [th EXCEPT !.pc = "build", !.dialect = cached], cached |-> cached]
           [] th.pc = "build" ->
                [th |-> [th EXCEPT !.pc = "done",
                                   !.result = build_sorted_paginated_sql(call.a.user_sql,
                                        call.a.sort_by, call.a.sort_order,
                                        call.a.include_total_count, th.dialect, cached, engine_name)],
                 cached |-> cached]

invocation_step(call, th, cached, engine_name) ==
    IF call.fn = "validate_sort_column"
    THEN [th |-> [th EXCEPT !.pc = "done",
                            !.result = validate_sort_column(call.a.sort_by, call.a.columns)],
          cached |-> cached]
    ELSE IF call.fn = "parse_trino_estimates"
    THEN [th |-> [th EXCEPT !.pc = "done", !.result = parse_trino_estimates(call.a.rows)],
          cached |-> cached]
    ELSE CASE th.pc = "call" ->
                IF call.a.dialect = NoneStr
                THEN [th |-> [th EXCEPT !.pc = "check"], cached |-> cached]
                ELSE [th |-> [th EXCEPT !.pc = "build", !.dialect = call.a.dialect],
                      cached |-> cached]
           [] th.pc = "check" ->
                [th |-> [th EXCEPT !.pc = IF cached = NoneStr THEN "detect" ELSE "return"],
                 cached |-> cached]
           [] th.pc = "detect" ->
                [th |-> [th EXCEPT !.pc = "return", !.wrote = TRUE],
                 cached |-> get_warehouse_dialect(engine_name)]
           [] th.pc = "return" ->
                [th |-> [th EXCEPT !.pc = "build", !.dialect = cached], cached |-> cached]
           [] th.pc = "build" ->
                [th |-> [th EXCEPT !.pc = "done",
                                   !.result = build_sorted_paginated_sql(call.a.user_sql,
                                        call.a.sort_by, call.a.sort_order,
                                        call.a.include_total_count, th.dialect, cached, engine_name)],
                 cached |-> cached]

\* MaxThreads callers have each entered one of the functions; the process
\* may or may not have detected its dialect yet
InitConcurrent ==
    \* the calls in flight: the rewriter with or without an explicit dialect and
    \* with different SQL on each attempt, the sort column validator, the
    \* estimate parser
    LET ConcurrentCalls ==
            [fn : {"build_sorted_paginated_sql"},
             a : { r \in RewriteArgs :
                     /\ r.user_sql \in { <<"SELECT", "*", "FROM", "trades">>,
                                         <<"SELECT", "id", ",", "name", "FROM", "users", ";">> }
                     /\ r.sort_by = None /\ r.sort_order = "desc" /\ r.include_total_count
                     /\ r.dialect \in {NoneStr, "postgres"} }]
            \cup
            [fn : {"validate_sort_column"},
             a : { [sort_by |-> <<"a">>, columns |-> c] :
                     c \in {None, Some(<<[kind |-> "Column", column_name |-> Some(<<"A">>)]>>)} }]
            \cup
            [fn : {"parse_trino_estimates"},
             a : { [rows |-> <<r>>] :
                     r \in { <<>>, << <<"Query Plan", StrVal(<<EstTok(<<"7">>, <<"7">>, "GB")>>)>> >> } }]
    IN
    /\ pc = "run"
    /\ op = "concurrent"
    /\ args \in [1..MaxThreads -> ConcurrentCalls]
    /\ ret = [t \in 1..MaxThreads |->
                [pc |-> "call", dialect |-> NoneStr, wrote |-> FALSE, result |-> NoRet]]
    /\ exc = "none"
    /\ wh_engine_dialect \in {"postgresql", "trino"}
    /\ _CACHED_DIALECT \in {NoneStr, get_warehouse_dialect(wh_engine_dialect)}

\* the scheduler lets one unfinished invocation take its next step
InvocationStep ==
    /\ pc = "run"
    /\ \E t \in DOMAIN ret :
          /\ ret[t].pc # "done"
          /\ LET s == invocation_step(args[t], ret[t], _CACHED_DIALECT, wh_engine_dialect)
             IN  /\ ret' = [ret EXCEPT ![t] = s.th]
                 /\ _CACHED_DIALECT' = s.cached
    /\ UNCHANGED <<pc, op, args, exc, wh_engine_dialect>>

SpecConcurrent == InitConcurrent /\ [][InvocationStep]_vars

\* what the call returns when it is the only one the process ever runs
SoloResult(call, engine_name) ==
    IF call.fn = "validate_sort_column"
    THEN validate_sort_column(call.a.sort_by, call.a.columns)
    ELSE IF call.fn = "parse_trino_estimates"
    THEN parse_trino_estimates(call.a.rows)
    ELSE build_sorted_paginated_sql(call.a.user_sql, call.a.sort_by, call.a.sort_order,
                                    call.a.include_total_count, call.a.dialect, NoneStr, engine_name)

\* C14 (as stated): the SQL rewriter, the sort column validator and the
\* estimate parser hold no mutable shared state: no step of an invocation
\* changes anything another invocation can read.
C14_NoSharedMutableState ==
    [][pc = "run" => _CACHED_DIALECT' = _CACHED_DIALECT]_vars

\* C14 (amended): the sort column validator and the estimate parser share
\* nothing; the rewriter called without a dialect reads, and when it is empty
\* writes, the process-wide _CACHED_DIALECT, which only ever holds the
\* dialect detected from the engine; under every interleaving each
\* invocation returns what it returns when run alone.
C14_InvocationsIndependent ==
    pc = "run" =>
        /\ _CACHED_DIALECT \in {NoneStr, get_warehouse_dialect(wh_engine_dialect)}
        /\ \A t \in DOMAIN ret :
              ret[t].pc = "done" => ret[t].result = SoloResult(args[t], wh_engine_dialect)

\* two rewriter invocations with different SQL both found the cache empty,
\* both wrote it, and both have returned
C14_Witness ==
    /\ pc = "run"
    /\ \A t \in DOMAIN ret : ret[t].pc = "done"
    /\ \E t, u \in DOMAIN ret :
          /\ ret[t].wrote /\ ret[u].wrote
          /\ args[t].a.user_sql # args[u].a.user_sql

\* ---------------------------------------------------------------------------
\* db-meta cache layer (dbmeta_app/cache/redis_cache.py) and its callers
\* ---------------------------------------------------------------------------

MaxArgs == 2

\* RedisCache.__init__ (redis_cache.py:34-85); redis is "up", "down" (ping
\* raises) or "erroring" (ping answers, every later command raises)
RedisCache(enabled, redis) ==
    IF enabled /\ redis # "down"
    THEN [enabled |-> TRUE, _client |-> redis]
    ELSE [enabled |-> FALSE, _client |-> NoneStr]

\* Python's binding of a call to a signature (params..., *args, **kwargs):
\* positional arguments fill params left to right, then a keyword naming an
\* already filled parameter, or given twice, is a TypeError
binding_raises(params, npos, keywords) ==
    \/ \E i \in 1..Len(params) : i <= npos /\ \E k \in 1..Len(keywords) : keywords[k] = params[i]
    \/ \E j, k \in 1..Len(keywords) : j # k /\ keywords[j] = keywords[k]

\* RedisCache.get(prefix, *args, **kwargs) (redis_cache.py:109-137); the call
\* passes `positional` (prefix first) and the keyword names `keywords`
RedisCache_get(cache, store, positional, keywords) ==
    IF binding_raises(<<"prefix">>, Len(positional), keywords)
    THEN [exc |-> "TypeError", value |-> None, store |-> store]
    ELSE IF ~cache.enabled \/ cache._client = NoneStr
    THEN [exc |-> "none", value |-> None, store |-> store]
    ELSE IF cache._client = "erroring"
    THEN [exc |-> "none", value |-> None, store |-> store]
    ELSE LET key == <<positional, keywords>>
         IN  [exc |-> "none",
              value |-> IF key \in store THEN Some(<<"cached">>) ELSE None,
              store |-> store]

\* RedisCache.set(prefix, value, ttl=3600, *args, **kwargs)
\* (redis_cache.py:139-173); the key is made of prefix, *args and **kwargs
RedisCache_set(cache, store, positional, keywords) ==
    IF Len(positional) < 2 \/ binding_raises(<<"prefix", "value", "ttl">>, Len(positional), keywords)
    THEN [exc |-> "TypeError", value |-> FALSE, store |-> store]
    ELSE IF ~cache.enabled \/ cache._client = NoneStr
    THEN [exc |-> "none", value |-> FALSE, store |-> store]
    ELSE IF cache._client = "erroring"
    THEN [exc |-> "none", value |-> FALSE, store |-> store]
    ELSE LET key == << <<positional[1]>> \o SubSeq(positional, 4, Len(positional)),
                       SelectSeq(keywords, LAMBDA k : k # "ttl") >>
         IN  [exc |-> "none", value |-> TRUE, store |-> store \cup {key}]

\* RedisCache.delete (redis_cache.py:175-198) and RedisCache.clear_prefix
\* (redis_cache.py:200-226)
RedisCache_delete(cache, store, positional, keywords, whole_prefix) ==
    IF ~whole_prefix /\ binding_raises(<<"prefix">>, Len(positional), keywords)
    THEN [exc |-> "TypeError", value |-> FALSE, store |-> store]
    ELSE IF ~cache.enabled \/ cache._client = NoneStr \/ cache._client = "erroring"
    THEN [exc |-> "none", value |-> FALSE, store |-> store]
    ELSE [exc |-> "none", value |-> TRUE,
          store |-> IF whole_prefix
                    THEN { k \in store : k[1][1] # positional[1] }
                    ELSE store \ {<<positional, keywords>>}]

\* wrapper(*args, **kwargs) of cache_result(prefix) (redis_cache.py:288-303)
cache_result(cache, store, prefix, fargs, fkeywords) ==
    LET cached == RedisCache_get(cache, store, <<prefix>> \o fargs, fkeywords)
    IN  IF cached.exc # "none" THEN cached
        ELSE IF cached.value.some THEN cached
        ELSE LET result == <<"computed">>
                 \* cache.set(prefix, result, ttl=cache_ttl, *args, **kwargs)
                 stored == RedisCache_set(cache, store, <<prefix, "result">> \o fargs,
                                          <<"ttl">> \o fkeywords)
             IN  IF stored.exc # "none" THEN stored
                 ELSE [exc |-> "none", value |-> Some(result), store |-> stored.store]

\* get_query_example_prompt_item(query, db) (query_examples.py:8-49)
get_query_example_prompt_item(cache, store, query, db) ==
    LET cached_result == RedisCache_get(cache, store, <<"examples", query, db>>, <<>>)
    IN  IF cached_result.exc # "none" THEN cached_result
        ELSE IF cached_result.value.some THEN cached_result
        ELSE LET result == <<"computed">>
                 \* cache.set("examples", result.model_dump(), query, db, ttl=...)
                 stored == RedisCache_set(cache, store, <<"examples", "result", query, db>>,
                                          <<"ttl">>)
             IN  IF stored.exc # "none" THEN stored
                 ELSE [exc |-> "none", value |-> Some(result), store |-> stored.store]

\* a caller is about to use the cache: the singleton was built with Redis
\* up, down or erroring, enabled or not; the store may hold the looked-up key
InitCache ==
    /\ pc = "call"
    /\ op \in {"get", "set", "delete", "clear_prefix", "cache_result",
               "get_query_example_prompt_item"}
    /\ \E enabled \in BOOLEAN, redis \in {"up", "down", "erroring"},
          fargs \in UNION { [1..n -> {"q", "db1"}] : n \in 0..MaxArgs },
          fkeywords \in {<<>>, <<"db">>}, hit \in BOOLEAN :
          args = [cache |-> RedisCache(enabled, redis),
                  fargs |-> fargs, fkeywords |-> fkeywords,
                  store |-> IF hit THEN {<< <<"examples">> \o fargs, fkeywords >>} ELSE {}]
    /\ ret = NoRet
    /\ exc = "none"
    /\ wh_engine_dialect = "postgresql"
    /\ _CACHED_DIALECT = NoneStr

\* a direct call of one RedisCache method, with the arguments in the order
\* of its signature
CacheMethod ==
    /\ pc = "call"
    /\ op \in {"get", "set", "delete", "clear_prefix"}
    /\ LET r == CASE op = "get" ->
                       RedisCache_get(args.cache, args.store, <<"examples">> \o args.fargs, args.fkeywords)
                  [] op = "set" ->
                       RedisCache_set(args.cache, args.store,
                                      <<"examples", "result", "1800">> \o args.fargs, args.fkeywords)
                  [] op = "delete" ->
                       RedisCache_delete(args.cache, args.store, <<"examples">> \o args.fargs,
                                         args.fkeywords, FALSE)
                  [] op = "clear_prefix" ->
                       RedisCache_delete(args.cache, args.store, <<"examples">>, <<>>, TRUE)
       IN  /\ ret' = [value |-> r.value, store |-> r.store]
           /\ exc' = r.exc
    /\ pc' = "done"
    /\ UNCHANGED <<op, args, wh_engine_dialect, _CACHED_DIALECT>>

\* a cached lookup: a function decorated with cache_result("examples"), or
\* the query-examples prompt item (query and db are its two arguments)
CachedLookup ==
    /\ pc = "call"
    /\ op \in {"cache_result", "get_query_example_prompt_item"}
    /\ LET r == IF op = "cache_result"
                THEN cache_result(args.cache, args.store, "examples", args.fargs, args.fkeywords)
                ELSE get_query_example_prompt_item(args.cache, args.store, "q", "db1")
       IN  /\ ret' = [value |-> r.value, store |-> r.store]
           /\ exc' = r.exc
    /\ pc' = "done"
    /\ UNCHANGED <<op, args, wh_engine_dialect, _CACHED_DIALECT>>

SpecCache == InitCache /\ [][CacheMethod \/ CachedLookup]_vars

\* C15: with Redis down, erroring or disabled, and for any arguments of the
\* cached call, get/set/delete/clear_prefix and every cached lookup (the
\* cache_result wrapper, the query-examples prompt item) return an uncached
\* result and raise nothing.
C15_CacheNeverRaises ==
    (/\ pc = "done"
     /\ op \in {"get", "set", "delete", "clear_prefix", "cache_result",
                "get_query_example_prompt_item"}
     /\ (~args.cache.enabled \/ args.cache._client = "erroring")) =>
        /\ exc = "none"
        /\ op \in {"cache_result", "get_query_example_prompt_item"} =>
              ret.value = Some(<<"computed">>)

\* ---------------------------------------------------------------------
\* The worker: one processing run of one request (_wrk_add_request) through
\* simple_flow, mcp_flow or interactive_flow.  In this section pc = "flow";
\* args is the request as queued (flow, request type, warehouse dialect) and
\* ret is the run's state:
\*   loc        where the run is: "start", "loop" (inside the repair loop of
\*              handle_interactive_query), "returned" / "raised" (the flow
\*              came back to the worker), "finished"
\*   attempt    the repair loop's counter
\*   status     the persisted status of the request
\*   writes     every persisted status write of the run, in order
\*   req_status the status field of the in-memory request object
\*   llm_calls  the number of LLM generation calls made
\*   validated  outcome of validate_metadata on the last LLM response
\*   stored     whether query metadata was stored, and with which validation
\*              outcome
\* What the collaborators do (the LLM, the validators, the database side)
\* is an outcome record o chosen for each step:
\*   llm "ok" | "raises", valid (validate_metadata), body "sql" | "result" |
\*   "neither" (what the LLM response carries), unqualified (a table with no
\*   schema in the SQL), db "ok" | "explanation" | "error" (the database-side
\*   call), raises (some other awaited call raises)

\* fm_app.db.db.update_request_status: the persisted status becomes status
update_request_status(st, status) ==
    [st EXCEPT !.status = status, !.writes = Append(@, status)]

\* fm_app.db.db.update_query_metadata / create_query: the metadata of the
\* last LLM response becomes the session's query
update_query_metadata(st) ==
    [st EXCEPT !.stored = IF st.validated = "failed" THEN "invalid" ELSE "valid"]

\* one iteration of the repair loop of handle_interactive_query, run to
\* its continue or return; a continue that leaves the loop runs the code
\* after it
handle_interactive_query(st, o, trino) ==
    LET continue(s) ==
            LET n == [s EXCEPT !.attempt = @ + 1]
            IN  IF n.attempt <= 3 THEN n
                ELSE [update_request_status(n, "error")
                        EXCEPT !.req_status = "error", !.loc = "returned"]
        done(s) == [update_request_status(s, "done") EXCEPT !.loc = "returned"]
        called == [update_request_status(st, "sql") EXCEPT !.llm_calls = @ + 1]
        checked == [called EXCEPT !.validated = IF o.valid THEN "passed" ELSE "failed"]
        finalizing == update_request_status(checked, "finalizing")
    IN  IF o.llm = "raises"
        THEN [update_request_status([called EXCEPT !.req_status = "error"], "error")
                EXCEPT !.loc = "returned"]
        ELSE IF ~o.valid /\ st.attempt < 3
        THEN continue(checked)
        ELSE IF o.body = "sql"
        THEN IF trino /\ o.unqualified /\ st.attempt < 3
             THEN continue(finalizing)
             ELSE IF o.db = "error"
             THEN continue([update_request_status(finalizing, "error")
                              EXCEPT !.req_status = "retry"])
             ELSE IF o.raises
             THEN [finalizing EXCEPT !.loc = "raised"]
             ELSE done(update_query_metadata(finalizing))
        ELSE IF o.body = "result"
        THEN done(update_query_metadata(finalizing))
        ELSE [update_request_status(finalizing, "error") EXCEPT !.loc = "returned"]

\* handle_manual_query: the user's SQL, metadata from one LLM call
handle_manual_query(st, o) ==
    LET called == [update_request_status(update_request_status(st, "new"), "sql")
                     EXCEPT !.llm_calls = @ + 1]
        checked == [update_request_status(called, "finalizing")
                      EXCEPT !.validated = IF o.valid THEN "passed" ELSE "failed"]
    IN  IF o.llm = "raises"
        THEN [update_request_status([called EXCEPT !.req_status = "error"], "error")
                EXCEPT !.loc = "returned"]
        ELSE IF o.body # "sql"
        THEN [checked EXCEPT !.loc = "returned"]
        ELSE IF o.db = "error"
        THEN [update_request_status(checked, "error") EXCEPT !.loc = "returned"]
        ELSE IF o.raises
        THEN [checked EXCEPT !.loc = "raised"]
        ELSE [update_query_metadata(checked) EXCEPT !.loc = "returned"]

\* interactive_flow: the orchestrator, up to the handler it routes to
interactive_flow(st, o, request_type) ==
    LET in_process == update_request_status(st, "in_process")
    IN  IF o.raises
        THEN [st EXCEPT !.loc = "raised"]
        ELSE IF request_type = "manual_query"
        THEN handle_manual_query(in_process, o)
        ELSE IF o.llm = "raises"
        THEN [update_request_status([in_process EXCEPT !.req_status = "error"], "error")
                EXCEPT !.loc = "returned"]
        ELSE [update_request_status(in_process, "intent") EXCEPT !.loc = "loop"]

\* simple_flow: ask for SQL, run it, ask for the final answer
simple_flow(st, o) ==
    LET asked == [update_request_status(st, "sql") EXCEPT !.llm_calls = @ + 1]
        data == update_request_status(asked, "data")
    IN  IF o.llm = "raises"
        THEN [asked EXCEPT !.loc = "raised"]
        ELSE IF o.body # "sql"
        THEN [asked EXCEPT !.loc = "raised"]
        ELSE IF o.db = "error"
        THEN [data EXCEPT !.req_status = "error", !.loc = "returned"]
        ELSE IF o.raises
        THEN [update_request_status(data, "finalizing")
                EXCEPT !.llm_calls = @ + 1, !.loc = "raised"]
        ELSE [update_request_status(update_request_status(data, "finalizing"), "done")
                EXCEPT !.llm_calls = @ + 1, !.loc = "returned"]

\* mcp_flow: an agent run against the metadata server, then a data fetch
mcp_flow(st, o) ==
    IF o.raises \/ o.llm = "raises"
    THEN [st EXCEPT !.loc = "raised"]
    ELSE IF o.body # "sql" \/ o.db = "error"
    THEN [st EXCEPT !.llm_calls = @ + 1, !.req_status = "error", !.loc = "returned"]
    ELSE [st EXCEPT !.llm_calls = @ + 1, !.loc = "returned"]

\* _wrk_add_request after the flow: the final update of a returned
\* request, or the handler of an exception the flow let through
\* (update_request_failure is taken to persist the error status)
_wrk_add_request(st) ==
    IF st.loc = "raised"
    THEN [update_request_status([st EXCEPT !.req_status = "error"], "error")
            EXCEPT !.loc = "finished"]
    ELSE IF st.req_status = "error"
    THEN [st EXCEPT !.loc = "finished"]
    ELSE [update_request_status([st EXCEPT !.req_status = "done"], "done")
            EXCEPT !.loc = "finished"]

InitWorker ==
    /\ pc = "flow"
    /\ op = "_wrk_add_request"
    /\ args \in [flow : {"simple_flow", "mcp_flow", "interactive_flow"},
                 request_type : {"manual_query", "interactive_query"},
                 trino : BOOLEAN]
    /\ ret = [loc |-> "start", attempt |-> 1, status |-> "new", writes |-> <<>>,
              req_status |-> "new", llm_calls |-> 0, validated |-> "none",
              stored |-> "none"]
    /\ exc = "none"
    /\ wh_engine_dialect = "postgresql"
    /\ _CACHED_DIALECT = NoneStr

\* the flow runs: to its return for the single-pass flows, one iteration at
\* a time inside the repair loop
FlowStep ==
    LET Outcomes ==
            [llm : {"ok", "raises"}, valid : BOOLEAN, body : {"sql", "result", "neither"},
             unqualified : BOOLEAN, db : {"ok", "explanation", "error"}, raises : BOOLEAN]
    IN
    /\ pc = "flow"
    /\ ret.loc \in {"start", "loop"}
    /\ \E o \in Outcomes :
          ret' = CASE ret.loc = "loop" -> handle_interactive_query(ret, o, args.trino)
                   [] args.flow = "simple_flow" -> simple_flow(ret, o)
                   [] args.flow = "mcp_flow" -> mcp_flow(ret, o)
                   [] OTHER -> interactive_flow(ret, o, args.request_type)
    /\ UNCHANGED <<pc, op, args, exc, wh_engine_dialect, _CACHED_DIALECT>>

\* the worker takes the request back from the flow
WorkerFinish ==
    /\ pc = "flow"
    /\ ret.loc \in {"returned", "raised"}
    /\ ret' = _wrk_add_request(ret)
    /\ UNCHANGED <<pc, op, args, exc, wh_engine_dialect, _CACHED_DIALECT>>

\* the task queue runs a picked-up request to the end of _wrk_add_request
SpecWorker ==
    InitWorker /\ [][FlowStep \/ WorkerFinish]_vars /\ WF_vars(FlowStep \/ WorkerFinish)

\* C22: once a run has written the persisted status error, no later write
\* of the same run (a further repair attempt, the worker's final update)
\* sets it to sql, finalizing or done.
C22_ErrorIsTerminal ==
    pc = "flow" =>
        \A i, j \in 1..Len(ret.writes) :
            (i < j /\ ret.writes[i] = "error") =>
                ret.writes[j] \notin {"sql", "finalizing", "done"}

\* C23: every request the worker picks up eventually finishes its run with
\* the persisted status done or error, whichever flow handles it and however
\* the flow ends.
C23_EventuallyTerminal ==
    (pc = "flow") ~> (ret.loc = "finished" /\ ret.status \in {"done", "error"})

\* C24: in the interactive query flow, query metadata is stored only when
\* the metadata of the last LLM attempt passed validate_metadata.
C24_StoredOnlyIfValidated ==
    (/\ pc = "flow"
     /\ args.flow = "interactive_flow"
     /\ args.request_type = "interactive_query"
     /\ ret.stored # "none") =>
        ret.validated = "passed"

\* C27: the repair loop makes at most three LLM generation calls for one
\* request, and a run that finishes with no attempt that passed validation
\* and was stored finishes with the persisted status error.
C27_ThreeAttemptsThenError ==
    (/\ pc = "flow"
     /\ args.flow = "interactive_flow"
     /\ args.request_type = "interactive_query") =>
        /\ ret.llm_calls <= 3
        /\ (ret.loc = "finished" /\ ~(ret.validated = "passed" /\ ret.stored # "none")) =>
              ret.status = "error"

\* ---------------------------------------------------------------------
\* The data-fetch event stream: stream_data_fetch queues wrk_fetch_data and
\* polls its state from a server-sent-event generator.  In this section
\* pc = "stream"; ret holds the generator's locals and what it has sent:
\*   loc        "start", "loop" (suspended inside the polling loop), "closed"
\*   events     the events yielded so far, in order
\*   polls      completed polling rounds (poll_interval each) since start_time
\*   count_sent the generator's flag
\*   disconnected, revoked   the client went away; task.revoke was called
\*   task       the task as the result backend reports it: its state and,
\*              once ready, the dictionary wrk_fetch_data returned
\* COUNTING_COMPLETE is a custom state the generator reacts to; the backend
\* may report it although wrk_fetch_data as written publishes none.

\* polling rounds that fit into max_wait (300 s at 0.5 s a round)
MaxPolls == 3

\* wrk_fetch_data: the dictionary the task returns, by what the warehouse
\* call does
wrk_fetch_data(outcome) ==
    CASE outcome = "rows" -> [status |-> "success", error |-> NoneStr]
      [] outcome = "SoftTimeLimitExceeded" ->
             [status |-> "error", error |-> "Query execution timed out"]
      [] OTHER -> [status |-> "error", error |-> outcome]

\* event_generator without the flag: the count event is sent on every poll
\* that reads COUNTING_COMPLETE
event_generator_recounts(st, disconnected) ==
    LET yield(s, e) == [s EXCEPT !.events = Append(@, e)]
        counted == IF st.task.state = "COUNTING_COMPLETE"
                   THEN yield(st, "count")
                   ELSE st
    IN  IF st.loc = "start"
        THEN [yield(st, "started") EXCEPT !.loc = "loop"]
        ELSE IF ~(st.polls < MaxPolls)
        THEN [yield(st, "error") EXCEPT !.revoked = TRUE, !.loc = "closed"]
        ELSE IF disconnected
        THEN [st EXCEPT !.disconnected = TRUE, !.revoked = TRUE, !.loc = "closed"]
        ELSE IF counted.task.state = "SUCCESS"
        THEN [yield(counted, IF counted.task.result.status = "success"
                             THEN "data" ELSE "error")
                EXCEPT !.loc = "closed"]
        ELSE [yield(counted, "progress") EXCEPT !.polls = @ + 1]

\* event_generator, from one suspension to the next: the started event,
\* then one round of the polling loop (or its else branch on timeout)
event_generator(st, disconnected) ==
    LET yield(s, e) == [s EXCEPT !.events = Append(@, e)]
        counted == IF st.task.state = "COUNTING_COMPLETE" /\ ~st.count_sent
                   THEN [yield(st, "count") EXCEPT !.count_sent = TRUE]
                   ELSE st
    IN  IF st.loc = "start"
        THEN [yield(st, "started") EXCEPT !.loc = "loop"]
        ELSE IF ~(st.polls < MaxPolls)
        THEN [yield(st, "error") EXCEPT !.revoked = TRUE, !.loc = "closed"]
        ELSE IF disconnected
        THEN [st EXCEPT !.disconnected = TRUE, !.revoked = TRUE, !.loc = "closed"]
        ELSE IF counted.task.state = "SUCCESS"
        THEN [yield(counted, IF counted.task.result.status = "success"
                             THEN "data" ELSE "error")
                EXCEPT !.loc = "closed"]
        ELSE [yield(counted, "progress") EXCEPT !.polls = @ + 1]

InitStream ==
    /\ pc = "stream"
    /\ op = "stream_data_fetch"
    /\ args = [query_id |-> "q", limit |-> 100, offset |-> 0]
    /\ ret = [loc |-> "start", events |-> <<>>, polls |-> 0, count_sent |-> FALSE,
              disconnected |-> FALSE, revoked |-> FALSE,
              task |-> [state |-> "PENDING",
                        result |-> [status |-> NoneStr, error |-> NoneStr]]]
    /\ exc = "none"
    /\ wh_engine_dialect = "postgresql"
    /\ _CACHED_DIALECT = NoneStr

\* the task moves on the Celery worker: a state is published, or the task
\* returns
TaskStep ==
    /\ pc = "stream"
    /\ ~ret.revoked
    /\ ret.task.state # "SUCCESS"
    /\ \/ /\ ret.task.state = "PENDING"
          /\ \E s \in {"STARTED", "COUNTING_COMPLETE"} :
                ret' = [ret EXCEPT !.task.state = s]
       \/ \E outcome \in {"rows", "SoftTimeLimitExceeded", "Exception"} :
             ret' = [ret EXCEPT !.task = [state |-> "SUCCESS",
                                          result |-> wrk_fetch_data(outcome)]]
    /\ UNCHANGED <<pc, op, args, exc, wh_engine_dialect, _CACHED_DIALECT>>

\* the response resumes the generator
StreamStep ==
    /\ pc = "stream"
    /\ ret.loc # "closed"
    /\ \E disconnected \in BOOLEAN : ret' = event_generator(ret, disconnected)
    /\ UNCHANGED <<pc, op, args, exc, wh_engine_dialect, _CACHED_DIALECT>>

\* the response keeps resuming the generator until it is exhausted
SpecStream == InitStream /\ [][TaskStep \/ StreamStep]_vars /\ WF_vars(StreamStep)

Terminal(events) == { i \in 1..Len(events) : events[i] \in {"data", "error"} }

Init == InitRewrite \/ InitSort \/ InitResolve \/ InitWalk \/ InitEstimates \/ InitMetadata
        \/ InitConcurrent \/ InitCache \/ InitWorker \/ InitStream

Next == Rewrite \/ ValidateSort \/ ResolveTable \/ GenerateSchemaPrompt \/ GetDbSchema
        \/ GetDataSamples \/ ParseClickhouseEstimates \/ ParseTrinoEstimates \/ QueryPreflight
        \/ ExtractResultColumns \/ ValidateMetadata \/ ValidateAndRaise \/ InvocationStep
        \/ CacheMethod \/ CachedLookup \/ FlowStep \/ WorkerFinish
        \/ TaskStep \/ StreamStep

Spec == Init /\ [][Next]_vars
====
